---------------------------- MODULE Spec2Model ----------------------------
(***************************************************************************)
(* Model of the netcode and simulation core of rayman-slides:              *)
(*   - game.World: the tick pipeline, Snapshot/Restore and the checksum;   *)
(*   - server.Server: sessions, input queues, tick loop, Stop;             *)
(*   - sync: Baseline, Diff, Apply;                                        *)
(*   - client: PredictionBuffer and Reconciler.                            *)
(*                                                                         *)
(* float64 values are fixed-point integers in units of 1/Scale; every      *)
(* constant of the source is written in that unit (0.5 is 50).  A fist's   *)
(* maximum distance is kept as the numerator of a fraction over            *)
(* MaxChargeTicks so that the charge ratio is exact.                       *)
(***************************************************************************)
EXTENDS Integers, Sequences, FiniteSets, TLC

VARIABLES
    \* ---- server.Server and its execution contexts
    world,      \* s.world: a World record, or None
    tick,       \* s.tick
    running,    \* s.running
    muW,        \* s.mu: the context holding the write lock, or None
    muR,        \* s.mu: the contexts holding a read lock
    sessions,   \* s.sessions: sessionID -> Session object reference
    objs,       \* heap of Session objects: reference -> [PlayerID, InputQueue, removed]
    quitClosed, \* quitCh is closed
    doneClosed, \* doneCh is closed
    loopPc,     \* position of each tick-loop goroutine
    ptTodo,     \* processTick: sessions of the range loop not yet visited
    ptLog,      \* processTick: what the tick in progress (or the last one) did
    sinceSync,  \* runTickLoop: ticksSinceSync, a local of each loop
    bcState,    \* broadcastState: the snapshot taken, before the callback runs
    delivered,  \* the WorldState last handed to the state-update callback
    stopPc,     \* position of each context calling Stop
    qiPc,       \* position of each context calling Server.QueueInput
    qiArg,      \* arguments (and the session found) of the QueueInput call
    rdPc,       \* position of the render context using Client.World()
    hist,       \* history: counters and flags the properties read
    \* ---- sync: Baseline / Diff / Apply
    baseline,   \* the sender's Baseline
    current,    \* the sender's current entity list
    recvState,  \* the receiver's state map
    snap,       \* the StateSnapshot in flight, or None
    syncPc,     \* position of the sender/receiver exchange
    \* ---- client: prediction and reconciliation
    cw,         \* the client's World
    sw,         \* the server's World the authoritative states come from
    buf,        \* the PredictionBuffer: [inputs, states]
    rec,        \* the last Reconcile: its result and the reference simulation
    \* ---- game.World driven directly, one SetPlayerIntent + Update per step
    gw,         \* the World
    gh,         \* history: what the last calls were given and what they left
    \* ---- sync.SnapshotBuffer on the receiving side
    sbuf        \* the SnapshotBuffer, or None

serverVars == <<world, tick, running, muW, muR, sessions, objs, quitClosed,
                doneClosed, loopPc, ptTodo, ptLog, sinceSync, bcState, delivered,
                stopPc, qiPc, qiArg, rdPc, hist>>
syncVars == <<baseline, current, recvState, snap, syncPc>>
reconVars == <<cw, sw, buf, rec>>
simVars == <<gw, gh, sbuf>>
vars == <<serverVars, syncVars, reconVars, simVars>>

\* An optional value (a Go pointer that may be nil) is <<>> or <<value>>.
None == <<>>
Some(x) == <<x>>

(***************************************************************************)
(* Numbers.                                                                *)
(***************************************************************************)
\* The fixed-point unit: 1.0 is Scale.
Scale == 100

\* protocol.Intent bits.
IntentNone == 0
IntentLeft == 2
IntentRight == 4
IntentJump == 8
IntentAttack == 16
IntentUse == 32

\* World.runInputSystem / runPhysicsSystem / runCollisionSystem constants.
moveSpeed == 50
jumpSpeed == 100
gravityAccel == 8
maxFallSpeed == 100
colW == 80
colH == 90

\* Charge constants.
MaxChargeTicks == 180
MinFistDistance == 100
MaxFistDistance == 2000
FistSpeed == 80
AttackCooldown == 8

\* Reconciler.tolerance (0.01).
Tolerance == 1

\* Bounds of the model.
MapWidth == 6
MapHeight == 4
MaxTick == 2
MaxInputs == 2
MaxAdds == 2
BufCapacity == 3
MaxCur == 2
SyncInterval == 2
MaxReconTick == 3
MaxRounds == 2
MaxReconciles == 1

(***************************************************************************)
(* Helpers.                                                                *)
(***************************************************************************)
\* ctrl.Intents & bit != 0, for a single-bit mask.
HasIntent(intents, bit) == (intents \div bit) % 2 = 1

\* Go's int(float64): truncation toward zero, from fixed-point to whole units.
TruncInt(x) == IF x >= 0 THEN x \div Scale ELSE -((-x) \div Scale)

\* float64(int).
ToFloat(n) == n * Scale

RECURSIVE SeqMap(_, _)
SeqMap(F(_), s) ==
    IF s = <<>> THEN <<>> ELSE <<F(Head(s))>> \o SeqMap(F, Tail(s))

RECURSIVE SeqFilter(_, _)
SeqFilter(T(_), s) ==
    IF s = <<>> THEN <<>>
    ELSE IF T(Head(s)) THEN <<Head(s)>> \o SeqFilter(T, Tail(s))
         ELSE SeqFilter(T, Tail(s))

RECURSIVE SeqConcat(_)
SeqConcat(ss) == IF ss = <<>> THEN <<>> ELSE Head(ss) \o SeqConcat(Tail(ss))

Range(s) == {s[i] : i \in DOMAIN s}

\* The bag of a sequence's elements, as element -> count.
BagOf(s) == [x \in Range(s) |-> Cardinality({i \in DOMAIN s : s[i] = x})]

(***************************************************************************)
(* collision.TileMap.                                                      *)
(***************************************************************************)
\* game.DemoLevelForViewport at model size: a floor row and two walls.
DemoLevel ==
    [Width |-> MapWidth, Height |-> MapHeight,
     Solid |-> {<<x, MapHeight - 1>> : x \in 0..(MapWidth - 1)}
               \cup {<<0, y>> : y \in 0..(MapHeight - 1)}
               \cup {<<MapWidth - 1, y>> : y \in 0..(MapHeight - 1)}]

\* TileMap.Get(x, y) & TileSolid != 0; out of bounds is solid.
IsSolid(tm, x, y) ==
    IF x < 0 \/ x >= tm.Width \/ y < 0 \/ y >= tm.Height THEN TRUE
    ELSE <<x, y>> \in tm.Solid

(***************************************************************************)
(* game.World.  Ents holds the physics entities (players, enemies) in      *)
(* query order; an entity's index is its ecs.Entity.  Fists holds the      *)
(* Fist projectiles in spawn order.                                        *)
(***************************************************************************)
IdleAttack ==
    [Attacking |-> FALSE, TicksLeft |-> 0, FacingRight |-> TRUE,
     Charging |-> FALSE, ChargeTicks |-> 0, AttackWasPressed |-> FALSE]

NewWorld == [Tick |-> 0, TileMap |-> None, Ents |-> <<>>, Fists |-> <<>>]

SetTileMap(w, tm) == [w EXCEPT !.TileMap = Some(tm)]

SpawnPlayer(w, id, x, y) ==
    [w EXCEPT !.Ents = Append(@,
        [Kind |-> "player", Pos |-> [X |-> x, Y |-> y], Vel |-> [X |-> 0, Y |-> 0],
         GravScale |-> 1, OnGround |-> FALSE, PlayerID |-> id,
         Intents |-> IntentNone, Sprite |-> "player", Attack |-> IdleAttack])]

SpawnEnemy(w, x, y) ==
    [w EXCEPT !.Ents = Append(@,
        [Kind |-> "enemy", Pos |-> [X |-> x, Y |-> y], Vel |-> [X |-> 0, Y |-> 0],
         GravScale |-> 1, OnGround |-> FALSE])]

IsPlayer(e) == e.Kind = "player"

\* World.SetPlayerIntent: every entity of controlFilter gets the intents;
\* playerID is not read.
SetPlayerIntent(w, playerID, intents) ==
    [w EXCEPT !.Ents = SeqMap(LAMBDA e :
        IF IsPlayer(e) THEN [e EXCEPT !.Intents = intents] ELSE e, @)]

\* The input system with the jump velocity pointing down the screen.
InputEntityJumpDown(e) ==
    [e EXCEPT !.Vel = [X |-> IF HasIntent(e.Intents, IntentRight) THEN moveSpeed
                             ELSE IF HasIntent(e.Intents, IntentLeft) THEN -moveSpeed
                             ELSE 0,
                       Y |-> IF HasIntent(e.Intents, IntentJump) /\ e.OnGround
                             THEN jumpSpeed ELSE @.Y],
                 !.OnGround = IF HasIntent(e.Intents, IntentJump) /\ e.OnGround
                              THEN FALSE ELSE @]

\* An input system that jumps on IntentJump whether grounded or not.
InputEntityAirJump(e) ==
    LET vx0 == IF HasIntent(e.Intents, IntentLeft) THEN -moveSpeed ELSE 0
        vx  == IF HasIntent(e.Intents, IntentRight) THEN moveSpeed ELSE vx0
        jump == HasIntent(e.Intents, IntentJump)
    IN [e EXCEPT !.Vel = [X |-> vx, Y |-> IF jump THEN -jumpSpeed ELSE @.Y],
                 !.OnGround = IF jump THEN FALSE ELSE @]

\* World.runInputSystem, one entity of controlFilter.
InputEntity(e) ==
    LET vx0 == IF HasIntent(e.Intents, IntentLeft) THEN -moveSpeed ELSE 0
        vx  == IF HasIntent(e.Intents, IntentRight) THEN moveSpeed ELSE vx0
        jump == HasIntent(e.Intents, IntentJump) /\ e.OnGround
    IN [e EXCEPT !.Vel = [X |-> vx, Y |-> IF jump THEN -jumpSpeed ELSE @.Y],
                 !.OnGround = IF jump THEN FALSE ELSE @]

runInputSystem(w) ==
    [w EXCEPT !.Ents = SeqMap(LAMBDA e : IF IsPlayer(e) THEN InputEntity(e) ELSE e, @)]

\* A distance that counts the ticks after the tick of the press only.
FistDistanceAfterPress(chargeTicks) ==
    MinFistDistance * MaxChargeTicks
        + (chargeTicks - 1) * (MaxFistDistance - MinFistDistance)

\* The distance of a fist released after chargeTicks ticks, as the numerator
\* of a fraction over MaxChargeTicks.
FistDistance(chargeTicks) ==
    MinFistDistance * MaxChargeTicks
        + chargeTicks * (MaxFistDistance - MinFistDistance)

\* The edge handling without the clamp of the charge counter.
AttackResultNoClamp(a, facing, pressed, start) ==
    [fire |-> (~pressed /\ a.AttackWasPressed) /\ (a.Charging \/ start),
     distance |-> FistDistance(a.ChargeTicks),
     attack |-> [Attacking |-> IF ~pressed /\ a.AttackWasPressed /\ a.Charging
                               THEN TRUE ELSE a.Attacking,
                 TicksLeft |-> IF ~pressed /\ a.AttackWasPressed /\ a.Charging
                               THEN AttackCooldown ELSE a.TicksLeft,
                 FacingRight |-> facing,
                 Charging |-> IF ~pressed /\ a.AttackWasPressed /\ a.Charging
                              THEN FALSE ELSE (a.Charging \/ start),
                 ChargeTicks |-> IF ~pressed /\ a.AttackWasPressed /\ a.Charging THEN 0
                                 ELSE IF start THEN 1
                                 ELSE IF a.Charging /\ pressed THEN a.ChargeTicks + 1
                                 ELSE a.ChargeTicks,
                 AttackWasPressed |-> pressed]]

\* The edge handling of the instant-fire variant: the fist leaves on the press.
AttackResultOnPress(a, facing, pressed, start) ==
    [fire |-> start,
     distance |-> FistDistance(0),
     attack |-> [Attacking |-> IF start THEN TRUE ELSE a.Attacking,
                 TicksLeft |-> IF start THEN AttackCooldown ELSE a.TicksLeft,
                 FacingRight |-> facing,
                 Charging |-> FALSE,
                 ChargeTicks |-> 0,
                 AttackWasPressed |-> pressed]]

\* World.runAttackSystem, the edge handling of one AttackState a, given the
\* facing, whether attack is held, and whether a charge starts this tick; the
\* AttackState afterwards, whether a fist is fired, and its distance.
AttackResult(a, facing, pressed, start) ==
    LET charging1 == a.Charging \/ start
        ticks1 == IF start THEN 0 ELSE a.ChargeTicks
        ticks2 == IF charging1 /\ pressed
                  THEN (IF ticks1 + 1 > MaxChargeTicks THEN MaxChargeTicks ELSE ticks1 + 1)
                  ELSE ticks1
        fire == (~pressed /\ a.AttackWasPressed) /\ charging1
    IN [fire |-> fire,
        distance |-> FistDistance(ticks2),
        attack |-> [Attacking |-> IF fire THEN TRUE ELSE a.Attacking,
                    TicksLeft |-> IF fire THEN AttackCooldown ELSE a.TicksLeft,
                    FacingRight |-> facing,
                    Charging |-> IF fire THEN FALSE ELSE charging1,
                    ChargeTicks |-> IF fire THEN 0 ELSE ticks2,
                    AttackWasPressed |-> pressed]]

\* An edge handling that starts a charge whenever the intent is held in
\* Idle, rising edge or not.
AttackEdgesOnLevel(e) ==
    AttackResult(e.Attack,
        IF e.Vel.X > 0 THEN TRUE ELSE IF e.Vel.X < 0 THEN FALSE ELSE e.Attack.FacingRight,
        HasIntent(e.Intents, IntentAttack),
        /\ HasIntent(e.Intents, IntentAttack)
        /\ ~e.Attack.Attacking
        /\ ~e.Attack.Charging)

\* World.runAttackSystem, one entity of attackFilter, up to the sprite update.
AttackEdges(e) ==
    AttackResult(e.Attack,
        IF e.Vel.X > 0 THEN TRUE ELSE IF e.Vel.X < 0 THEN FALSE ELSE e.Attack.FacingRight,
        HasIntent(e.Intents, IntentAttack),
        /\ HasIntent(e.Intents, IntentAttack)
        /\ ~e.Attack.AttackWasPressed
        /\ ~e.Attack.Attacking
        /\ ~e.Attack.Charging)

\* The sprite name of the charging animation.
ChargeSprite(a) ==
    LET level == IF a.ChargeTicks > (MaxChargeTicks * 2) \div 3 THEN "3"
                 ELSE IF a.ChargeTicks > MaxChargeTicks \div 3 THEN "2" ELSE "1"
    IN (IF a.FacingRight THEN "player_charge_right_" ELSE "player_charge_left_") \o level

\* A sprite / cooldown part that ends the cooldown in the Update that counts
\* TicksLeft down to 0.
AttackSpriteEndsEarly(e, a) ==
    IF a.Charging
    THEN [e EXCEPT !.Attack = a, !.Sprite = ChargeSprite(a)]
    ELSE IF a.Attacking
         THEN IF a.TicksLeft > 1
              THEN [e EXCEPT !.Attack = [a EXCEPT !.TicksLeft = @ - 1],
                             !.Sprite = IF a.FacingRight THEN "player_punch_right"
                                        ELSE "player_punch_left"]
              ELSE [e EXCEPT !.Attack = [a EXCEPT !.Attacking = FALSE, !.TicksLeft = 0],
                             !.Sprite = "player"]
         ELSE [e EXCEPT !.Attack = a, !.Sprite = "player"]

\* World.runAttackSystem, one entity: the sprite / cooldown part, given the
\* AttackState a the edge handling left.
AttackSprite(e, a) ==
    IF a.Charging
    THEN [e EXCEPT !.Attack = a, !.Sprite = ChargeSprite(a)]
    ELSE IF a.Attacking
         THEN IF a.TicksLeft > 0
              THEN [e EXCEPT !.Attack = [a EXCEPT !.TicksLeft = @ - 1],
                             !.Sprite = IF a.FacingRight THEN "player_punch_right"
                                        ELSE "player_punch_left"]
              ELSE [e EXCEPT !.Attack = [a EXCEPT !.Attacking = FALSE],
                             !.Sprite = "player"]
         ELSE [e EXCEPT !.Attack = a, !.Sprite = "player"]

AttackEntity(e) == AttackSprite(e, AttackEdges(e).attack)

\* World.SpawnFist: the components of the new projectile.
SpawnFist(x, y, facingRight, maxDistance, ownerID) ==
    [Pos |-> [X |-> x, Y |-> y - 50],
     Vel |-> [X |-> IF facingRight THEN FistSpeed ELSE -FistSpeed, Y |-> 0],
     Sprite |-> IF facingRight THEN "fist_right" ELSE "fist_left",
     StartX |-> x, MaxDistance |-> maxDistance, FacingRight |-> facingRight,
     OwnerID |-> ownerID]

\* The fist an entity's attack result r spawns, if any.
FistOf(e, r) ==
    IF r.fire
    THEN <<SpawnFist(e.Pos.X, e.Pos.Y, r.attack.FacingRight, r.distance, e.PlayerID)>>
    ELSE <<>>

\* The fists runAttackSystem spawns after its query, in query order.
FistsToSpawn(ents) ==
    SeqConcat(SeqMap(LAMBDA e :
        IF IsPlayer(e) THEN FistOf(e, AttackEdges(e)) ELSE <<>>, ents))

runAttackSystem(w) ==
    [w EXCEPT !.Ents = SeqMap(LAMBDA e : IF IsPlayer(e) THEN AttackEntity(e) ELSE e, @),
              !.Fists = @ \o FistsToSpawn(w.Ents)]

\* World.runFistSystem: the distance a fist has travelled, times MaxChargeTicks.
FistTraveled(f) ==
    (IF f.FacingRight THEN f.Pos.X - f.StartX ELSE -(f.Pos.X - f.StartX)) * MaxChargeTicks

MoveFist(f) == [f EXCEPT !.Pos.X = @ + f.Vel.X]

\* A removal test that lets a fist at exactly MaxDistance fly on.
FistAliveAtMax(f) == ~(FistTraveled(f) > f.MaxDistance)

FistAlive(f) == ~(FistTraveled(f) >= f.MaxDistance)

runFistSystem(w) ==
    [w EXCEPT !.Fists = SeqFilter(FistAlive, SeqMap(MoveFist, @))]

\* World.runPhysicsSystem, one entity of physicsFilter.
PhysicsEntity(e) ==
    LET vy0 == e.Vel.Y + gravityAccel * e.GravScale
        vy  == IF vy0 > maxFallSpeed THEN maxFallSpeed ELSE vy0
    IN [e EXCEPT !.Vel.Y = vy,
                 !.Pos = [X |-> @.X + e.Vel.X, Y |-> @.Y + vy],
                 !.OnGround = FALSE]

runPhysicsSystem(w) == [w EXCEPT !.Ents = SeqMap(PhysicsEntity, @)]

\* A landing that stops the fall without putting the feet on the tile.
CollideGroundNoSnap(tm, e, tileX, tileY) ==
    IF IsSolid(tm, tileX, tileY) /\ e.Vel.Y > 0
    THEN [e EXCEPT !.Vel.Y = 0, !.OnGround = TRUE]
    ELSE e

\* World.runCollisionSystem, one entity, stage by stage; each stage reads what
\* the previous one wrote.  Ground: landing on the tile under the feet.
CollideGround(tm, e, tileX, tileY) ==
    IF IsSolid(tm, tileX, tileY) /\ e.Vel.Y > 0
    THEN [e EXCEPT !.Pos.Y = ToFloat(tileY) - colH, !.Vel.Y = 0, !.OnGround = TRUE]
    ELSE e

\* Ceiling: tileX is the one computed before the ground stage.
CollideCeiling(tm, e, tileX, headTileY) ==
    IF IsSolid(tm, tileX, headTileY) /\ e.Vel.Y < 0
    THEN [e EXCEPT !.Pos.Y = ToFloat(headTileY + 1), !.Vel.Y = 0]
    ELSE e

CollideWallLeft(tm, e, wallTileX, wallTileY) ==
    IF IsSolid(tm, wallTileX, wallTileY)
    THEN [e EXCEPT !.Pos.X = ToFloat(wallTileX + 1) + (colW \div 2), !.Vel.X = 0]
    ELSE e

\* wallTileY is the one computed before the left-wall stage.
CollideWallRight(tm, e, wallTileX, wallTileY) ==
    IF IsSolid(tm, wallTileX, wallTileY)
    THEN [e EXCEPT !.Pos.X = ToFloat(wallTileX) - (colW \div 2), !.Vel.X = 0]
    ELSE e

ClampLeft(e) == IF e.Pos.X < (colW \div 2) THEN [e EXCEPT !.Pos.X = (colW \div 2)] ELSE e

\* No clamp at the right edge of the map.
ClampRightMissing(tm, e) == e

ClampRight(tm, e) ==
    IF e.Pos.X > ToFloat(tm.Width) - (colW \div 2)
    THEN [e EXCEPT !.Pos.X = ToFloat(tm.Width) - (colW \div 2)] ELSE e

ClampTop(e) == IF e.Pos.Y < 0 THEN [e EXCEPT !.Pos.Y = 0] ELSE e

ClampBottom(tm, e) ==
    IF e.Pos.Y > ToFloat(tm.Height) - colH
    THEN [e EXCEPT !.Pos.Y = ToFloat(tm.Height) - colH, !.Vel.Y = 0, !.OnGround = TRUE]
    ELSE e

CollideCeilingAt(tm, e, tileX) == CollideCeiling(tm, e, tileX, TruncInt(e.Pos.Y))

CollideWallRightOf(tm, e, wallTileY) ==
    CollideWallRight(tm, e, TruncInt(e.Pos.X + (colW \div 2)), wallTileY)

\* The wall stages: wallTileY is read once, before the left wall.
CollideWalls(tm, e, wallTileY) ==
    CollideWallRightOf(tm,
        CollideWallLeft(tm, e, TruncInt(e.Pos.X - (colW \div 2)), wallTileY), wallTileY)

\* The ground and ceiling stages: tileX is read once, before the ground.
CollideVertical(tm, e, tileX) ==
    CollideCeilingAt(tm, CollideGround(tm, e, tileX, TruncInt(e.Pos.Y + colH)), tileX)

CollideWallsOf(tm, e) == CollideWalls(tm, e, TruncInt(e.Pos.Y + (colH \div 2)))

CollideEntity(tm, e) ==
    ClampBottom(tm, ClampTop(ClampRight(tm, ClampLeft(
        CollideWallsOf(tm, CollideVertical(tm, e, TruncInt(e.Pos.X)))))))

runCollisionSystem(w) ==
    IF w.TileMap = None THEN w
    ELSE [w EXCEPT !.Ents = SeqMap(LAMBDA e : CollideEntity(w.TileMap[1], e), @)]

\* World.Update: one tick of the pipeline.
Update(w) ==
    runCollisionSystem(runPhysicsSystem(runFistSystem(runAttackSystem(
        runInputSystem([w EXCEPT !.Tick = @ + 1])))))

(***************************************************************************)
(* game.WorldState: Snapshot, Restore and the FNV-1a checksum.  A 32-bit   *)
(* hash is a tuple of its four bytes, least significant first.             *)
(***************************************************************************)
RECURSIVE XorBits(_, _, _)
XorBits(a, b, n) ==
    IF n = 0 THEN 0
    ELSE (((a % 2) + (b % 2)) % 2) + 2 * XorBits(a \div 2, b \div 2, n - 1)

\* fnv.New32a(): the offset basis 0x811C9DC5.
FnvOffset == <<197, 157, 28, 129>>

\* One byte of hash/fnv's sum32a.Write: h ^= b; h *= 0x01000193 (mod 2^32).
FnvByte(h, b) ==
    LET x0 == XorBits(h[1], b, 8)
        c0 == x0 * 403
        c1 == (h[2] * 403) + (c0 \div 256)
        c2 == (h[3] * 403) + (c1 \div 256)
        c3 == (h[4] * 403) + (c2 \div 256) + x0
    IN <<c0 % 256, c1 % 256, c2 % 256, c3 % 256>>

RECURSIVE FnvWrite(_, _)
FnvWrite(h, bytes) ==
    IF bytes = <<>> THEN h
    ELSE LET h1 == FnvByte(h, Head(bytes))
         IN IF Len(h1) = 4 THEN FnvWrite(h1, Tail(bytes)) ELSE h1

\* byte(v >> (8*i)) of an int64 whose magnitude is below 2^24.
ByteAt(v, i) ==
    IF i < 3 THEN ((v % 16777216) \div (256 ^ i)) % 256
    ELSE IF v < 0 THEN 255 ELSE 0

Int64Bytes(v) == [i \in 1..8 |-> ByteAt(v, i - 1)]

\* int64(x * 1000) of a fixed-point value.
Milli(x) == (x * 1000) \div Scale

\* WorldState.computeChecksum: the tick, then each entity's position.
computeChecksum(stTick, ents) ==
    FnvWrite(FnvOffset,
        Int64Bytes(stTick)
        \o SeqConcat(SeqMap(LAMBDA es :
               Int64Bytes(Milli(es.Position.X)) \o Int64Bytes(Milli(es.Position.Y)),
               ents)))

\* The EntityState Snapshot captures for the physics entity at index i.
EntityStateOf(w, i) ==
    LET e == w.Ents[i]
    IN [Entity |-> i, Position |-> e.Pos, Velocity |-> e.Vel, Grounded |-> e.OnGround,
        HasPlayer |-> IsPlayer(e),
        PlayerID |-> IF IsPlayer(e) THEN e.PlayerID ELSE 0,
        HasAttack |-> IsPlayer(e),
        Attack |-> IF IsPlayer(e) THEN e.Attack
                   ELSE [IdleAttack EXCEPT !.FacingRight = FALSE]]

\* A Snapshot stamped with the tick the next Update will complete.
SnapshotAhead(w) ==
    [Tick |-> w.Tick + 1,
     Entities |-> [i \in DOMAIN w.Ents |-> EntityStateOf(w, i)],
     Checksum |-> computeChecksum(w.Tick + 1, [i \in DOMAIN w.Ents |-> EntityStateOf(w, i)])]

\* World.Snapshot: the physics entities only; fists are not captured.
Snapshot(w) ==
    LET ents == [i \in DOMAIN w.Ents |-> EntityStateOf(w, i)]
    IN [Tick |-> w.Tick, Entities |-> ents, Checksum |-> computeChecksum(w.Tick, ents)]

\* World.Restore, one EntityState: the entity with the same ecs.Entity, if the
\* world has it, gets position, velocity and grounded, and the attack state.
RestoreEntity(ents, es) ==
    IF es.Entity \in DOMAIN ents
    THEN [ents EXCEPT ![es.Entity] =
            LET e1 == [@ EXCEPT !.Pos = es.Position, !.Vel = es.Velocity,
                                !.OnGround = es.Grounded]
            IN IF es.HasAttack /\ IsPlayer(e1) THEN [e1 EXCEPT !.Attack = es.Attack] ELSE e1]
    ELSE ents

RECURSIVE RestoreAll(_, _)
RestoreAll(ents, states) ==
    IF states = <<>> THEN ents
    ELSE RestoreAll(RestoreEntity(ents, Head(states)), Tail(states))

\* A Restore that puts the entities back but leaves the World's tick alone.
RestoreKeepsTick(w, state) ==
    [w EXCEPT !.Ents = RestoreAll(@, state.Entities)]

\* World.Restore: the tick and the listed entities; nothing is despawned.
Restore(w, state) ==
    [w EXCEPT !.Tick = state.Tick, !.Ents = RestoreAll(@, state.Entities)]

Abs(x) == IF x < 0 THEN -x ELSE x

(***************************************************************************)
(* client.PredictionBuffer and client.Reconciler.                          *)
(***************************************************************************)

NewPredictionBuffer(capacity) ==
    [inputs |-> <<>>, states |-> <<>>, capacity |-> capacity]

\* An append that never removes an entry.
RecordInputNoEvict(b, frame) == [b EXCEPT !.inputs = Append(@, frame)]

RecordInput(b, frame) ==
    [b EXCEPT !.inputs =
        Append(IF Len(@) >= b.capacity THEN Tail(@) ELSE @, frame)]

RecordState(b, state) ==
    [b EXCEPT !.states =
        Append(IF Len(@) >= b.capacity THEN Tail(@) ELSE @, state)]

\* GetState: the last stored state of that tick, or nil.
GetState(b, t) ==
    LET hits == {i \in DOMAIN b.states : b.states[i].Tick = t}
    IN IF hits = {} THEN None
       ELSE Some(b.states[CHOOSE i \in hits : \A j \in hits : j <= i])

\* GetInputsSince: the inputs with a later tick, in buffer order.
GetInputsSince(b, t) == SeqFilter(LAMBDA f : f.Tick > t, b.inputs)

\* The index of the first entry whose tick is not below t (the loops of
\* PruneBefore stop there), as the number of entries dropped.
RECURSIVE PrunePrefix(_, _)
PrunePrefix(s, t) ==
    IF s # <<>> /\ Head(s).Tick < t THEN PrunePrefix(Tail(s), t) ELSE s

PruneBefore(b, t) ==
    [b EXCEPT !.inputs = PrunePrefix(@, t), !.states = PrunePrefix(@, t)]

InputCount(b) == Len(b.inputs)

StateCount(b) == Len(b.states)

\* Clear: both slices are cut to length 0.
Clear(b) == [b EXCEPT !.inputs = <<>>, !.states = <<>>]

\* ConvertToWorldSnapshot: positions, velocities, grounded, and the checksum.
ConvertToWorldSnapshot(state) ==
    [Tick |-> state.Tick, Checksum |-> state.Checksum,
     Entities |-> SeqMap(LAMBDA es :
        [PositionX |-> es.Position.X, PositionY |-> es.Position.Y,
         VelocityX |-> es.Velocity.X, VelocityY |-> es.Velocity.Y,
         Grounded |-> es.Grounded], state.Entities)]

ZeroSum == <<0, 0, 0, 0>>

\* The detailed comparison of Reconciler.statesMatch.
DetailedMatch(predicted, server) ==
    /\ Len(predicted.Entities) = Len(server.Entities)
    /\ \A i \in DOMAIN predicted.Entities :
        LET pe == predicted.Entities[i]
            se == server.Entities[i]
        IN /\ ~(Abs(pe.PositionX - se.Position.X) > Tolerance)
           /\ ~(Abs(pe.PositionY - se.Position.Y) > Tolerance)
           /\ pe.Grounded = se.Grounded

\* Reconciler.statesMatch: equal non-zero checksums, or the detailed comparison.
statesMatch(predicted, server) ==
    \/ (predicted.Checksum # ZeroSum /\ server.Checksum # ZeroSum
        /\ predicted.Checksum = server.Checksum)
    \/ DetailedMatch(predicted, server)

\* The replay loop of Reconcile: SetPlayerIntent(1, intents); Update().
RECURSIVE Replay(_, _)
Replay(w, inputs) ==
    IF inputs = <<>> THEN w
    ELSE Replay(Update(SetPlayerIntent(w, 1, Head(inputs).Intents)), Tail(inputs))

\* A Reconcile that, without a prediction, prunes but leaves the World alone.
ReconcileNoAdopt(w, b, serverState) ==
    LET predicted == GetState(b, serverState.Tick)
        inputs == GetInputsSince(b, serverState.Tick)
        pruned == PruneBefore(b, serverState.Tick)
    IN IF predicted = None \/ statesMatch(predicted[1], serverState)
       THEN [world |-> w, buf |-> pruned,
             Reconciled |-> TRUE, RolledBack |-> FALSE, ReplayedTicks |-> 0,
             ServerTick |-> serverState.Tick]
       ELSE [world |-> Replay(Restore(w, serverState), inputs), buf |-> pruned,
             Reconciled |-> TRUE, RolledBack |-> TRUE, ReplayedTicks |-> Len(inputs),
             ServerTick |-> serverState.Tick]

\* A Reconcile that, after a rollback, throws the predictions away.
ReconcileClearsOnRollback(w, b, serverState) ==
    LET predicted == GetState(b, serverState.Tick)
        inputs == GetInputsSince(b, serverState.Tick)
        pruned == PruneBefore(b, serverState.Tick)
    IN IF predicted = None
       THEN [world |-> Restore(w, serverState), buf |-> pruned,
             Reconciled |-> TRUE, RolledBack |-> FALSE, ReplayedTicks |-> 0,
             ServerTick |-> serverState.Tick]
       ELSE IF statesMatch(predicted[1], serverState)
       THEN [world |-> w, buf |-> pruned,
             Reconciled |-> TRUE, RolledBack |-> FALSE, ReplayedTicks |-> 0,
             ServerTick |-> serverState.Tick]
       ELSE [world |-> Replay(Restore(w, serverState), inputs), buf |-> Clear(pruned),
             Reconciled |-> TRUE, RolledBack |-> TRUE, ReplayedTicks |-> Len(inputs),
             ServerTick |-> serverState.Tick]

\* Reconciler.Reconcile: the world, the buffer and the result afterwards.
Reconcile(w, b, serverState) ==
    LET predicted == GetState(b, serverState.Tick)
        inputs == GetInputsSince(b, serverState.Tick)
        pruned == PruneBefore(b, serverState.Tick)
    IN IF predicted = None
       THEN [world |-> Restore(w, serverState), buf |-> pruned,
             Reconciled |-> TRUE, RolledBack |-> FALSE, ReplayedTicks |-> 0,
             ServerTick |-> serverState.Tick]
       ELSE IF statesMatch(predicted[1], serverState)
       THEN [world |-> w, buf |-> pruned,
             Reconciled |-> TRUE, RolledBack |-> FALSE, ReplayedTicks |-> 0,
             ServerTick |-> serverState.Tick]
       ELSE [world |-> Replay(Restore(w, serverState), inputs), buf |-> pruned,
             Reconciled |-> TRUE, RolledBack |-> TRUE, ReplayedTicks |-> Len(inputs),
             ServerTick |-> serverState.Tick]

(***************************************************************************)
(* sync: Baseline, Diff, Apply.  A map is a function on the ids it holds.  *)
(***************************************************************************)
EntityIDs == {1, 2, 3}

\* The serialized component bytes an entity can carry in the model.
ByteStrings == {<<>>, <<1>>, <<1, 2>>}

WireEntities == [ID : EntityIDs, Components : ByteStrings]

\* All sequences over S of length at most n.
SeqsUpTo(S, n) == UNION {[1..k -> S] : k \in 0..n}

\* All orders of a finite set, as sequences.
Perms(S) == {p \in [1..Cardinality(S) -> S] : Range(p) = S}

EmptyMap == [id \in {} |-> <<>>]

MapPut(m, k, v) == [x \in (DOMAIN m) \cup {k} |-> IF x = k THEN v ELSE m[x]]

MapDelete(m, k) == [x \in (DOMAIN m) \ {k} |-> m[x]]

\* m with every <<key, value>> of kvs put, in order.
RECURSIVE PutAll(_, _)
PutAll(m, kvs) ==
    IF kvs = <<>> THEN m
    ELSE PutAll(MapPut(m, Head(kvs)[1], Head(kvs)[2]), Tail(kvs))

RECURSIVE DeleteAll(_, _)
DeleteAll(m, ids) ==
    IF ids = <<>> THEN m ELSE DeleteAll(MapDelete(m, Head(ids)), Tail(ids))

NewBaseline == [tick |-> 0, entities |-> EmptyMap]

\* A Baseline.Update that upserts and forgets the Removed list.
BaselineUpdateKeepsRemoved(b, sn) ==
    [tick |-> sn.Tick,
     entities |-> PutAll(b.entities,
                         SeqMap(LAMBDA e : <<e.ID, e.Components>>, sn.Entities))]

\* Baseline.Update: the tick, then upsert Entities, then delete Removed.
BaselineUpdate(b, sn) ==
    [tick |-> sn.Tick,
     entities |-> DeleteAll(PutAll(b.entities,
                                   SeqMap(LAMBDA e : <<e.ID, e.Components>>, sn.Entities)),
                            sn.Removed)]

\* bytesEqual: same length and the same byte at every index.
bytesEqual(a, b) ==
    IF Len(a) # Len(b) THEN FALSE ELSE \A i \in DOMAIN a : a[i] = b[i]

\* The ids Diff lists as removed: in the baseline and not in current.
RemovedIDs(b, cur) == (DOMAIN b.entities) \ {cur[i].ID : i \in DOMAIN cur}

\* A Diff that sends every current entity, changed or not.
DiffSendsAll(b, cur, removedOrder) ==
    [Tick |-> 0, Full |-> FALSE, Baseline |-> b.tick,
     Entities |-> cur, Removed |-> removedOrder]

\* Diff.  Removed is filled by ranging over a Go map, whose order is not
\* defined: removedOrder is the order that range produced.
Diff(b, cur, removedOrder) ==
    [Tick |-> 0, Full |-> FALSE, Baseline |-> b.tick,
     Entities |-> SeqFilter(LAMBDA e :
                    IF e.ID \in DOMAIN b.entities
                    THEN ~bytesEqual(b.entities[e.ID], e.Components)
                    ELSE TRUE, cur),
     Removed |-> removedOrder]

\* An Apply that never clears and adds an entity's bytes to those it holds.
ApplyAccumulates(state, sn) ==
    DeleteAll(PutAll(state,
                     SeqMap(LAMBDA e :
                        <<e.ID, IF e.ID \in DOMAIN state
                                THEN [e EXCEPT !.Components = state[e.ID].Components \o @]
                                ELSE e>>, sn.Entities)),
              sn.Removed)

\* An Apply that upserts and forgets the Removed list.
ApplyKeepsRemoved(state, sn) ==
    PutAll(IF sn.Full THEN EmptyMap ELSE state,
           SeqMap(LAMBDA e : <<e.ID, e>>, sn.Entities))

\* Apply: clear on Full, upsert Entities, delete Removed.
Apply(state, sn) ==
    DeleteAll(PutAll(IF sn.Full THEN EmptyMap ELSE state,
                     SeqMap(LAMBDA e : <<e.ID, e>>, sn.Entities)),
              sn.Removed)

(***************************************************************************)
(* server.Server.  Execution contexts: the tick-loop goroutine, the        *)
(* callers of Stop, the network receive path calling QueueInput, and the   *)
(* render loop of the embedded client.  s.mu is muW (the writer) and muR   *)
(* (the readers).  A critical section that never blocks inside is one      *)
(* step, enabled when its lock can be taken.                               *)
(***************************************************************************)
Loops == {"loop"}
Stoppers == {"stopA", "stopB"}
Receivers == {"net"}
NoOwner == "none"

SessionIDs == {1, 2}

\* Intents and ticks of the InputFrames the receive path queues.
FrameIntents == {IntentLeft, IntentRight}
FrameTicks == 1..(MaxTick + 1)
Frames == [Tick : FrameTicks, Intents : FrameIntents]

\* The world the embedded client builds and hands to SetWorld: the level and
\* one player per session id, standing on the floor.
LevelWorld ==
    SpawnPlayer(SpawnPlayer(SetTileMap(NewWorld, DemoLevel),
        1, ToFloat(2), ToFloat(MapHeight - 1) - colH),
        2, ToFloat(3), ToFloat(MapHeight - 1) - colH)

\* s.mu.Lock() / s.mu.RLock() can be taken.
CanLock == muW = NoOwner /\ muR = {}
CanRLock == muW = NoOwner

\* A DrainInputs that returns the due frames and forgets the others.
DrainInputsForgetsRest(queue, upToTick) ==
    [result |-> SeqFilter(LAMBDA f : f.Tick <= upToTick, queue),
     remaining |-> <<>>]

\* Session.DrainInputs: the frames returned and the frames kept.
DrainInputs(queue, upToTick) ==
    [result |-> SeqFilter(LAMBDA f : f.Tick <= upToTick, queue),
     remaining |-> SeqFilter(LAMBDA f : ~(f.Tick <= upToTick), queue)]

\* A processTick that drains one tick too far.
DrainUpToLate(t) == t + 2

\* processTick: the tick DrainInputs is called with.
DrainUpTo(t) == t + 1

\* processTick, the inner loop: SetPlayerIntent for every drained input.
RECURSIVE ApplyInputs(_, _, _)
ApplyInputs(w, playerID, inputs) ==
    IF inputs = <<>> THEN w
    ELSE ApplyInputs(SetPlayerIntent(w, playerID, Head(inputs).Intents),
                     playerID, Tail(inputs))

\* A RemoveSession that leaves the session in the map.
RemoveFromKept(sess, sid) == sess

\* RemoveSession: delete(s.sessions, sessionID).
RemoveFrom(sess, sid) == IF sid \in DOMAIN sess THEN MapDelete(sess, sid) ELSE sess

\* Controller.Intents of every player entity, by Player.ID.
Controllers(w) ==
    [pid \in {w.Ents[i].PlayerID : i \in {j \in DOMAIN w.Ents : IsPlayer(w.Ents[j])}} |->
        LET i == CHOOSE j \in DOMAIN w.Ents : IsPlayer(w.Ents[j]) /\ w.Ents[j].PlayerID = pid
        IN w.Ents[i].Intents]

NoLog == [produces |-> 0, atStart |-> <<>>, visits |-> <<>>]

HistInit ==
    [started |-> FALSE, adds |-> 0, inputs |-> 0, removed |-> {},
     stopOnStarted |-> {}, tickAfterRemoval |-> FALSE]

\* The server New returns, with a place for each tick loop that may be
\* started on it.
ServerInitOf(loops) ==
    /\ world = None
    /\ tick = 0
    /\ running = FALSE
    /\ muW = NoOwner
    /\ muR = {}
    /\ sessions = EmptyMap
    /\ objs = <<>>
    /\ quitClosed = FALSE
    /\ doneClosed = FALSE
    /\ loopPc = [l \in loops |-> "none"]
    /\ ptTodo = {}
    /\ ptLog = NoLog
    /\ sinceSync = [l \in loops |-> 0]
    /\ bcState = None
    /\ delivered = None
    /\ stopPc = [c \in Stoppers |-> "idle"]
    /\ qiPc = [c \in Receivers |-> "idle"]
    /\ qiArg = [c \in Receivers |-> [sid |-> 0, frame |-> [Tick |-> 0, Intents |-> 0], obj |-> 0]]
    /\ rdPc = "idle"
    /\ hist = HistInit

ServerInit == ServerInitOf(Loops)

\* Server.SetWorld, as the embedded client calls it while wiring, before Start.
SetWorld ==
    /\ CanLock
    /\ ~hist.started
    /\ world = None
    /\ world' = Some(LevelWorld)
    /\ UNCHANGED <<syncVars, reconVars, simVars>>
    /\ UNCHANGED <<tick, running, muW, muR, sessions, objs, quitClosed, doneClosed,
                   loopPc, ptTodo, ptLog, sinceSync, bcState, delivered, stopPc,
                   qiPc, qiArg, rdPc, hist>>

\* Server.Start: the world defaults to NewWorld(), running is set, and the
\* tick loop is started on its own goroutine.
Start(l) ==
    /\ CanLock
    /\ ~hist.started
    /\ loopPc[l] = "none"
    /\ world' = IF world = None THEN Some(NewWorld) ELSE world
    /\ running' = TRUE
    /\ loopPc' = [loopPc EXCEPT ![l] = "select"]
    /\ hist' = [hist EXCEPT !.started = TRUE]
    /\ UNCHANGED <<syncVars, reconVars, simVars>>
    /\ UNCHANGED <<tick, muW, muR, sessions, objs, quitClosed, doneClosed, ptTodo,
                   ptLog, sinceSync, bcState, delivered, stopPc, qiPc, qiArg, rdPc>>

\* Server.AddSession.
AddSession(sid, pid) ==
    /\ CanLock
    /\ hist.adds < MaxAdds
    /\ objs' = Append(objs, [ID |-> sid, PlayerID |-> pid, InputQueue |-> <<>>])
    /\ sessions' = MapPut(sessions, sid, Len(objs) + 1)
    /\ hist' = [hist EXCEPT !.adds = @ + 1]
    /\ UNCHANGED <<syncVars, reconVars, simVars>>
    /\ UNCHANGED <<world, tick, running, muW, muR, quitClosed, doneClosed, loopPc,
                   ptTodo, ptLog, sinceSync, bcState, delivered, stopPc, qiPc, qiArg,
                   rdPc>>

\* Server.RemoveSession.
RemoveSession(sid) ==
    /\ CanLock
    /\ sid \in DOMAIN sessions
    /\ sessions' = RemoveFrom(sessions, sid)
    /\ hist' = [hist EXCEPT !.removed = @ \cup {sessions[sid]}]
    /\ UNCHANGED <<syncVars, reconVars, simVars>>
    /\ UNCHANGED <<world, tick, running, muW, muR, objs, quitClosed, doneClosed,
                   loopPc, ptTodo, ptLog, sinceSync, bcState, delivered, stopPc, qiPc,
                   qiArg, rdPc>>

\* Server.QueueInput is called: the call has not taken s.mu.RLock() yet.
QICall(c, sid, frame) ==
    /\ qiPc[c] = "idle"
    /\ hist.inputs < MaxInputs
    /\ qiPc' = [qiPc EXCEPT ![c] = "called"]
    /\ qiArg' = [qiArg EXCEPT ![c] = [sid |-> sid, frame |-> frame, obj |-> 0]]
    /\ hist' = [hist EXCEPT !.inputs = @ + 1]
    /\ UNCHANGED <<syncVars, reconVars, simVars>>
    /\ UNCHANGED <<world, tick, running, muW, muR, sessions, objs, quitClosed,
                   doneClosed, loopPc, ptTodo, ptLog, sinceSync, bcState, delivered,
                   stopPc, rdPc>>

\* Server.QueueInput: RLock, look the session up, RUnlock.
QILookup(c) ==
    /\ qiPc[c] = "called"
    /\ CanRLock
    /\ IF qiArg[c].sid \in DOMAIN sessions
       THEN /\ qiPc' = [qiPc EXCEPT ![c] = "append"]
            /\ qiArg' = [qiArg EXCEPT ![c].obj = sessions[qiArg[c].sid]]
       ELSE /\ qiPc' = [qiPc EXCEPT ![c] = "idle"]
            /\ qiArg' = qiArg
    /\ UNCHANGED <<syncVars, reconVars, simVars>>
    /\ UNCHANGED <<world, tick, running, muW, muR, sessions, objs, quitClosed,
                   doneClosed, loopPc, ptTodo, ptLog, sinceSync, bcState, delivered,
                   stopPc, rdPc, hist>>

\* Session.QueueInput on the session found: append under the session's lock.
QIAppend(c) ==
    /\ qiPc[c] = "append"
    /\ objs' = [objs EXCEPT ![qiArg[c].obj].InputQueue = Append(@, qiArg[c].frame)]
    /\ qiPc' = [qiPc EXCEPT ![c] = "idle"]
    /\ UNCHANGED <<syncVars, reconVars, simVars>>
    /\ UNCHANGED <<world, tick, running, muW, muR, sessions, quitClosed, doneClosed,
                   loopPc, ptTodo, ptLog, sinceSync, bcState, delivered, stopPc, qiArg,
                   rdPc, hist>>

\* runTickLoop, case <-ticker.C, and processTick up to its range loop: the
\* lock is taken.  produces is the tick the Update of this processTick writes.
PtBegin(l) ==
    /\ loopPc[l] = "select"
    /\ tick < MaxTick
    /\ CanLock
    /\ muW' = l
    /\ ptTodo' = DOMAIN sessions
    /\ ptLog' = [produces |-> world[1].Tick + 1,
                 atStart |-> [o \in {sessions[sid] : sid \in DOMAIN sessions} |->
                                objs[o].InputQueue],
                 visits |-> <<>>]
    /\ loopPc' = [loopPc EXCEPT ![l] = "drain"]
    /\ UNCHANGED <<syncVars, reconVars, simVars>>
    /\ UNCHANGED <<world, tick, running, muR, sessions, objs, quitClosed, doneClosed,
                   sinceSync, bcState, delivered, stopPc, qiPc, qiArg, rdPc, hist>>

\* processTick, one iteration of the range over s.sessions (a Go map: any
\* order): DrainInputs(s.tick + 1), then SetPlayerIntent for every input.
PtDrain(l, sid) ==
    /\ loopPc[l] = "drain"
    /\ sid \in ptTodo
    /\ LET o == sessions[sid]
           d == DrainInputs(objs[o].InputQueue, DrainUpTo(tick))
           w1 == ApplyInputs(world[1], objs[o].PlayerID, d.result)
       IN /\ objs' = [objs EXCEPT ![o].InputQueue = d.remaining]
          /\ world' = Some(w1)
          /\ ptLog' = [ptLog EXCEPT !.visits = Append(@,
                [sid |-> sid, obj |-> o, playerID |-> objs[o].PlayerID,
                 before |-> objs[o].InputQueue, drained |-> d.result,
                 left |-> d.remaining,
                 ctrlBefore |-> Controllers(world[1]), ctrlAfter |-> Controllers(w1),
                 removedAtApply |-> o \in hist.removed])]
    /\ ptTodo' = ptTodo \ {sid}
    /\ UNCHANGED <<syncVars, reconVars, simVars>>
    /\ UNCHANGED <<tick, running, muW, muR, sessions, quitClosed, doneClosed, loopPc,
                   sinceSync, bcState, delivered, stopPc, qiPc, qiArg, rdPc, hist>>

\* processTick: the range loop is over and World.Update is entered.
PtUpdateBegin(l) ==
    /\ loopPc[l] = "drain"
    /\ ptTodo = {}
    /\ loopPc' = [loopPc EXCEPT ![l] = "update"]
    /\ UNCHANGED <<syncVars, reconVars, simVars>>
    /\ UNCHANGED <<world, tick, running, muW, muR, sessions, objs, quitClosed,
                   doneClosed, ptTodo, ptLog, sinceSync, bcState, delivered, stopPc,
                   qiPc, qiArg, rdPc, hist>>

\* processTick: World.Update returns, s.tick = s.world.Tick, the lock is
\* released; then runTickLoop counts the tick and decides on a broadcast.
PtUpdateEnd(l) ==
    /\ loopPc[l] = "update"
    /\ world' = Some(Update(world[1]))
    /\ tick' = world'[1].Tick
    /\ muW' = NoOwner
    /\ IF sinceSync[l] + 1 >= SyncInterval
       THEN /\ sinceSync' = [sinceSync EXCEPT ![l] = 0]
            /\ loopPc' = [loopPc EXCEPT ![l] = "broadcast"]
       ELSE /\ sinceSync' = [sinceSync EXCEPT ![l] = @ + 1]
            /\ loopPc' = [loopPc EXCEPT ![l] = "select"]
    /\ hist' = [hist EXCEPT !.tickAfterRemoval = @ \/ hist.removed # {}]
    /\ ptLog' = NoLog
    /\ UNCHANGED <<syncVars, reconVars, simVars>>
    /\ UNCHANGED <<running, muR, sessions, objs, quitClosed, doneClosed, ptTodo,
                   bcState, delivered, stopPc, qiPc, qiArg, rdPc>>

\* broadcastState: RLock, Snapshot, read the callback, RUnlock.
BcSnapshot(l) ==
    /\ loopPc[l] = "broadcast"
    /\ CanRLock
    /\ bcState' = Some(Snapshot(world[1]))
    /\ loopPc' = [loopPc EXCEPT ![l] = "callback"]
    /\ UNCHANGED <<syncVars, reconVars, simVars>>
    /\ UNCHANGED <<world, tick, running, muW, muR, sessions, objs, quitClosed,
                   doneClosed, ptTodo, ptLog, sinceSync, delivered, stopPc, qiPc,
                   qiArg, rdPc, hist>>

\* broadcastState: callback(state), outside the lock.
BcCallback(l) ==
    /\ loopPc[l] = "callback"
    /\ delivered' = bcState
    /\ loopPc' = [loopPc EXCEPT ![l] = "select"]
    /\ UNCHANGED <<syncVars, reconVars, simVars>>
    /\ UNCHANGED <<world, tick, running, muW, muR, sessions, objs, quitClosed,
                   doneClosed, ptTodo, ptLog, sinceSync, bcState, stopPc, qiPc, qiArg,
                   rdPc, hist>>

\* runTickLoop without its deferred close(s.doneCh).
LoopQuitNoDone(l) ==
    /\ loopPc[l] = "select"
    /\ quitClosed
    /\ loopPc' = [loopPc EXCEPT ![l] = "exited"]
    /\ UNCHANGED <<syncVars, reconVars, simVars>>
    /\ UNCHANGED <<world, tick, running, muW, muR, sessions, objs, quitClosed,
                   doneClosed, ptTodo, ptLog, sinceSync, bcState, delivered, stopPc,
                   qiPc, qiArg, rdPc, hist>>

\* runTickLoop, case <-s.quitCh: return; the deferred close(s.doneCh) runs.
LoopQuit(l) ==
    /\ loopPc[l] = "select"
    /\ quitClosed
    /\ doneClosed' = TRUE
    /\ loopPc' = [loopPc EXCEPT ![l] = "exited"]
    /\ UNCHANGED <<syncVars, reconVars, simVars>>
    /\ UNCHANGED <<world, tick, running, muW, muR, sessions, objs, quitClosed, ptTodo,
                   ptLog, sinceSync, bcState, delivered, stopPc, qiPc, qiArg, rdPc,
                   hist>>

\* What Stop does under s.mu: return at once when not running, else clear
\* running and go on to close quitCh.
StopDecision(isRunning) == IF isRunning THEN "close" ELSE "returned"

\* Server.Stop, the part under s.mu.
StopCall(c) ==
    /\ stopPc[c] = "idle"
    /\ CanLock
    /\ stopPc' = [stopPc EXCEPT ![c] = StopDecision(running)]
    /\ running' = FALSE
    /\ hist' = [hist EXCEPT !.stopOnStarted =
                    IF hist.started THEN @ \cup {c} ELSE @]
    /\ UNCHANGED <<syncVars, reconVars, simVars>>
    /\ UNCHANGED <<world, tick, muW, muR, sessions, objs, quitClosed, doneClosed,
                   loopPc, ptTodo, ptLog, sinceSync, bcState, delivered, qiPc, qiArg,
                   rdPc>>

\* Server.Stop: close(s.quitCh).
StopClose(c) ==
    /\ stopPc[c] = "close"
    /\ quitClosed' = TRUE
    /\ stopPc' = [stopPc EXCEPT ![c] = "wait"]
    /\ UNCHANGED <<syncVars, reconVars, simVars>>
    /\ UNCHANGED <<world, tick, running, muW, muR, sessions, objs, doneClosed, loopPc,
                   ptTodo, ptLog, sinceSync, bcState, delivered, qiPc, qiArg, rdPc,
                   hist>>

\* Server.Stop: <-s.doneCh, then return.
StopWait(c) ==
    /\ stopPc[c] = "wait"
    /\ doneClosed
    /\ stopPc' = [stopPc EXCEPT ![c] = "returned"]
    /\ UNCHANGED <<syncVars, reconVars, simVars>>
    /\ UNCHANGED <<world, tick, running, muW, muR, sessions, objs, quitClosed,
                   doneClosed, loopPc, ptTodo, ptLog, sinceSync, bcState, delivered,
                   qiPc, qiArg, rdPc, hist>>

\* Client.World() -> Server.World(): the pointer is read under RLock and
\* returned; the render loop then reads the World (GetRenderables) with no
\* lock held.
RenderGetWorld ==
    /\ rdPc = "idle"
    /\ CanRLock
    /\ world # None
    /\ rdPc' = "reading"
    /\ UNCHANGED <<syncVars, reconVars, simVars>>
    /\ UNCHANGED <<world, tick, running, muW, muR, sessions, objs, quitClosed,
                   doneClosed, loopPc, ptTodo, ptLog, sinceSync, bcState, delivered,
                   stopPc, qiPc, qiArg, hist>>

\* The render loop is done with the frame.
RenderDone ==
    /\ rdPc = "reading"
    /\ rdPc' = "idle"
    /\ UNCHANGED <<syncVars, reconVars, simVars>>
    /\ UNCHANGED <<world, tick, running, muW, muR, sessions, objs, quitClosed,
                   doneClosed, loopPc, ptTodo, ptLog, sinceSync, bcState, delivered,
                   stopPc, qiPc, qiArg, hist>>

(***************************************************************************)
(* The sender/receiver exchange of sync and the client's reconciliation    *)
(* are idle in the server specification, and the server in theirs.         *)
(***************************************************************************)
NoSnap == None

SyncIdle ==
    /\ baseline = NewBaseline
    /\ current = <<>>
    /\ recvState = EmptyMap
    /\ snap = NoSnap
    /\ syncPc = "idle"

NoRec ==
    [Reconciled |-> FALSE, RolledBack |-> FALSE, ReplayedTicks |-> 0, ServerTick |-> 0,
     HadPrediction |-> FALSE, N |-> 0, count |-> 0, world |-> NewWorld,
     fresh |-> NewWorld, state |-> None, before |-> None, after |-> None,
     replayed |-> <<>>]

ReconIdle ==
    /\ cw = NewWorld
    /\ sw = NewWorld
    /\ buf = NewPredictionBuffer(BufCapacity)
    /\ rec = NoRec

NoHist ==
    [prev |-> NewWorld, input |-> <<>>, held |-> 0, fromIdle |-> FALSE, released |-> 0]

SimIdle ==
    /\ gw = NewWorld
    /\ sbuf = None
    /\ gh = NoHist

\* The input path: sessions come and go, the receive path queues frames, the
\* tick loop drains and applies them.
SpecServerNext ==
    \/ SetWorld
    \/ \E l \in Loops : Start(l)
    \/ \E sid \in SessionIDs : AddSession(sid, sid)
    \/ \E sid \in SessionIDs : RemoveSession(sid)
    \/ \E c \in Receivers, sid \in SessionIDs, f \in Frames : QICall(c, sid, f)
    \/ \E c \in Receivers : QILookup(c)
    \/ \E c \in Receivers : QIAppend(c)
    \/ \E l \in Loops : PtBegin(l)
    \/ \E l \in Loops, sid \in SessionIDs : PtDrain(l, sid)
    \/ \E l \in Loops : PtUpdateBegin(l)
    \/ \E l \in Loops : PtUpdateEnd(l)
    \/ \E l \in Loops : BcSnapshot(l)
    \/ \E l \in Loops : BcCallback(l)

\* The life cycle: the tick loop, the callers of Stop and the render loop.
SpecLifeNext ==
    \/ SetWorld
    \/ \E l \in Loops : Start(l)
    \/ \E sid \in SessionIDs : AddSession(sid, sid)
    \/ \E l \in Loops : PtBegin(l)
    \/ \E l \in Loops, sid \in SessionIDs : PtDrain(l, sid)
    \/ \E l \in Loops : PtUpdateBegin(l)
    \/ \E l \in Loops : PtUpdateEnd(l)
    \/ \E l \in Loops : BcSnapshot(l)
    \/ \E l \in Loops : BcCallback(l)
    \/ \E l \in Loops : LoopQuit(l)
    \/ \E c \in Stoppers : StopCall(c)
    \/ \E c \in Stoppers : StopClose(c)
    \/ \E c \in Stoppers : StopWait(c)
    \/ RenderGetWorld
    \/ RenderDone

SpecServerInit == ServerInit /\ SyncIdle /\ ReconIdle /\ SimIdle

SpecServer == SpecServerInit /\ [][SpecServerNext]_vars

SpecLife == SpecServerInit /\ [][SpecLifeNext]_vars

(***************************************************************************)
(* Properties of the server.                                               *)
(***************************************************************************)
Visits == {ptLog.visits[i] : i \in DOMAIN ptLog.visits}

MaxTickOf(frames) ==
    CHOOSE t \in {frames[i].Tick : i \in DOMAIN frames} :
        \A i \in DOMAIN frames : frames[i].Tick <= t

\* C4: the World handed out by Server.World() / Client.World() is never read
\* while processTick's World.Update is in progress.
C4_WorldNeverReadDuringUpdate ==
    ~(rdPc = "reading" /\ \E l \in Loops : loopPc[l] = "update")

\* C5: once a Stop called on a started server has returned, the tick loop
\* has fully exited, also when several contexts call Stop concurrently.
C5_NoUseAfterStop ==
    \A c \in Stoppers :
        (stopPc[c] = "returned" /\ c \in hist.stopOnStarted)
            => \A l \in Loops : loopPc[l] = "exited"

C7_LatestInputWins ==
    \A v \in Visits :
        (Len(v.drained) >= 2 /\ v.playerID \in DOMAIN v.ctrlAfter)
            => \E i \in DOMAIN v.drained :
                  /\ v.drained[i].Tick = MaxTickOf(v.drained)
                  /\ v.ctrlAfter[v.playerID] = v.drained[i].Intents

\* C8: applying the input drained from one session leaves the
\* Controller.Intents of every other player entity unchanged.
C8_InputIsolation ==
    \A v \in Visits :
        \A pid \in DOMAIN v.ctrlBefore :
            pid # v.playerID => v.ctrlAfter[pid] = v.ctrlBefore[pid]

\* C9: a Server.QueueInput call that has been made can always take its next
\* step: it never waits for the lock processTick holds.
C9_QueueInputNeverBlocks ==
    \A c \in Receivers : qiPc[c] = "called" => CanRLock

\* C10: no processTick visits a session object that RemoveSession has
\* removed, so none of its frames is drained or applied.
C10_RemovedSessionNeverApplied ==
    /\ \A v \in Visits : v.obj \notin hist.removed /\ ~v.removedAtApply
    /\ \A sid \in DOMAIN sessions : sessions[sid] \notin hist.removed

\* A removed session still holds a frame that is due, while the tick loop,
\* having advanced after the removal, applies the input of another session.
C10_Witness ==
    /\ hist.tickAfterRemoval
    /\ \E l \in Loops : loopPc[l] = "update"
    /\ \E v \in Visits : v.drained # <<>>
    /\ \E o \in hist.removed :
          \E i \in DOMAIN objs[o].InputQueue :
              objs[o].InputQueue[i].Tick <= ptLog.produces

(***************************************************************************)
(* sync: a sender holding a Baseline and a receiver holding a state map    *)
(* exchange deltas in lock step, as the package's README shows: the        *)
(* sender diffs its current entity list against the baseline, the          *)
(* receiver applies the delta and acknowledges it, and the sender updates  *)
(* the baseline with the acknowledged snapshot.                            *)
(***************************************************************************)
SyncInit ==
    /\ baseline = NewBaseline
    /\ current = <<>>
    /\ recvState = EmptyMap
    /\ snap = NoSnap
    /\ syncPc = "idle"

\* The game produces the sender's next entity list.
SyncProduce(c) ==
    /\ syncPc = "idle"
    /\ baseline.tick < MaxRounds
    /\ current' = c
    /\ syncPc' = "diff"
    /\ UNCHANGED <<baseline, recvState, snap>>
    /\ UNCHANGED <<serverVars, reconVars, simVars>>

\* delta := sync.Diff(baseline, currentEntities); the sender stamps the tick.
SyncDiff(removedOrder) ==
    /\ syncPc = "diff"
    /\ snap' = Some([Diff(baseline, current, removedOrder)
                        EXCEPT !.Tick = baseline.tick + 1])
    /\ syncPc' = "apply"
    /\ UNCHANGED <<baseline, current, recvState>>
    /\ UNCHANGED <<serverVars, reconVars, simVars>>

\* The receiver: sync.Apply(state, &delta).
SyncApply ==
    /\ syncPc = "apply"
    /\ recvState' = Apply(recvState, snap[1])
    /\ syncPc' = "update"
    /\ UNCHANGED <<baseline, current, snap>>
    /\ UNCHANGED <<serverVars, reconVars, simVars>>

\* The sender, on the acknowledgement: baseline.Update(lastAckedSnapshot).
SyncAck ==
    /\ syncPc = "update"
    /\ baseline' = BaselineUpdate(baseline, snap[1])
    /\ snap' = NoSnap
    /\ syncPc' = "idle"
    /\ UNCHANGED <<current, recvState>>
    /\ UNCHANGED <<serverVars, reconVars, simVars>>

SpecSyncInit == ServerInit /\ SyncInit /\ ReconIdle /\ SimIdle

SpecSyncNext ==
    \/ \E c \in SeqsUpTo(WireEntities, MaxCur) : SyncProduce(c)
    \/ \E r \in Perms(RemovedIDs(baseline, current)) : SyncDiff(r)
    \/ SyncApply
    \/ SyncAck

SpecSync == SpecSyncInit /\ [][SpecSyncNext]_vars

\* The id -> bytes map of the receiver's state.
StateBytes(state) == [id \in DOMAIN state |-> state[id].Components]

DistinctIDs(cur) ==
    \A i, j \in DOMAIN cur : cur[i].ID = cur[j].ID => i = j

\* C3: the receiver's state enters every Diff with the id -> bytes map of the
\* baseline, and after Apply(state, Diff(B, C)) with C of distinct ids its
\* ids and bytes are exactly those of C; every entity of B that is not in C
\* is absent.
C3_DiffApplyRoundTrip ==
    /\ syncPc \in {"diff", "apply"} => StateBytes(recvState) = baseline.entities
    /\ (syncPc = "update" /\ DistinctIDs(current)) =>
          /\ DOMAIN recvState = {current[i].ID : i \in DOMAIN current}
          /\ \A i \in DOMAIN current :
                /\ recvState[current[i].ID].ID = current[i].ID
                /\ recvState[current[i].ID].Components = current[i].Components
          /\ \A id \in DOMAIN baseline.entities :
                id \notin {current[i].ID : i \in DOMAIN current}
                    => id \notin DOMAIN recvState

\* A delta that carried a changed or new entity, left an unchanged one out
\* and removed one has been applied.
C3_Witness ==
    /\ syncPc = "update"
    /\ DistinctIDs(current)
    /\ snap[1].Removed # <<>>
    /\ snap[1].Entities # <<>>
    /\ Len(snap[1].Entities) < Len(current)

(***************************************************************************)
(* client: prediction and reconciliation.  The client predicts on its own  *)
(* World (cw) from its local inputs; the server advances the authoritative *)
(* World (sw) from the inputs it saw, which may differ; the client         *)
(* reconciles against a Snapshot of the server's World.                    *)
(***************************************************************************)
\* The intents a tick's input carries in this specification.
ReconIntents == {IntentNone, IntentRight, IntentAttack}

\* The world both sides start from: the level and the player, on the floor.
ReconWorld ==
    SpawnPlayer(SetTileMap(NewWorld, DemoLevel),
        1, ToFloat(2), ToFloat(MapHeight - 1) - colH)

ReconInit ==
    /\ cw = ReconWorld
    /\ sw = ReconWorld
    /\ buf = NewPredictionBuffer(BufCapacity)
    /\ rec = NoRec

\* Prediction: the input is recorded under the next tick and applied to the
\* local World at once, and the resulting light snapshot is recorded.
ClientPredict(i) ==
    /\ cw.Tick < MaxReconTick
    /\ LET frame == [Tick |-> cw.Tick + 1, Intents |-> i]
           w1 == Update(SetPlayerIntent(cw, 1, i))
       IN /\ cw' = w1
          /\ buf' = RecordState(RecordInput(buf, frame),
                                ConvertToWorldSnapshot(Snapshot(w1)))
    /\ UNCHANGED <<sw, rec>>
    /\ UNCHANGED <<serverVars, syncVars, simVars>>

\* The server's tick for this player: SetPlayerIntent, then Update.
ServerStep(i) ==
    /\ sw.Tick < MaxReconTick
    /\ sw' = Update(SetPlayerIntent(sw, 1, i))
    /\ UNCHANGED <<cw, buf, rec>>
    /\ UNCHANGED <<serverVars, syncVars, simVars>>

\* The simulation a fresh World makes of the state S and the inputs: the
\* World as constructed, S restored into it, the inputs replayed.
FreshSimulation(S, inputs) == Replay(Restore(ReconWorld, S), inputs)

\* An authoritative state arrives: Reconciler.Reconcile(world, &state, tick).
DoReconcile ==
    /\ rec.count < MaxReconciles
    /\ sw.Tick > 0
    /\ LET S == Snapshot(sw)
           inputs == GetInputsSince(buf, S.Tick)
           r == Reconcile(cw, buf, S)
       IN /\ cw' = r.world
          /\ buf' = r.buf
          /\ rec' = [Reconciled |-> r.Reconciled, RolledBack |-> r.RolledBack,
                     ReplayedTicks |-> r.ReplayedTicks, ServerTick |-> r.ServerTick,
                     HadPrediction |-> GetState(buf, S.Tick) # None,
                     N |-> Len(inputs), count |-> rec.count + 1,
                     world |-> r.world, fresh |-> FreshSimulation(S, inputs),
                     state |-> Some(S), before |-> Some(buf), after |-> Some(r.buf),
                     replayed |-> IF r.RolledBack THEN inputs ELSE <<>>]
    /\ UNCHANGED sw
    /\ UNCHANGED <<serverVars, syncVars, simVars>>

SpecReconInit == ServerInit /\ SyncIdle /\ ReconInit /\ SimIdle

SpecReconNext ==
    \/ \E i \in ReconIntents : ClientPredict(i)
    \/ \E i \in ReconIntents : ServerStep(i)
    \/ DoReconcile

SpecRecon == SpecReconInit /\ [][SpecReconNext]_vars

\* What Snapshot captures of an entity, compared between two Worlds.
SimEntity(e) ==
    [Kind |-> e.Kind, Pos |-> e.Pos, Vel |-> e.Vel, OnGround |-> e.OnGround,
     Attack |-> IF IsPlayer(e) THEN e.Attack ELSE IdleAttack]

\* Two Worlds agree on the tick, on the live entities (the Fist projectiles
\* too) and on their position, velocity, grounded flag and attack state.
SimEqual(w1, w2) ==
    /\ w1.Tick = w2.Tick
    /\ SeqMap(SimEntity, w1.Ents) = SeqMap(SimEntity, w2.Ents)
    /\ BagOf(w1.Fists) = BagOf(w2.Fists)

\* C1: after a Reconcile that rolled back, ReplayedTicks is the number of
\* buffered inputs after the authoritative tick and the World equals a fresh
\* simulation seeded with the authoritative state and advanced by the same
\* inputs: the same tick, the same live entities (fists included), the same
\* component values.
C1_ReconcileEqualsFreshSimulation ==
    rec.RolledBack =>
        /\ rec.ReplayedTicks = rec.N
        /\ SimEqual(rec.world, rec.fresh)

\* The WorldState st is the World w as it stands: its tick, and position,
\* velocity, grounded flag and attack state of each of its physics entities.
StateIsWorld(st, w) ==
    /\ st.Tick = w.Tick
    /\ Len(st.Entities) = Len(w.Ents)
    /\ \A i \in DOMAIN w.Ents :
          /\ st.Entities[i].Position = w.Ents[i].Pos
          /\ st.Entities[i].Velocity = w.Ents[i].Vel
          /\ st.Entities[i].Grounded = w.Ents[i].OnGround
          /\ IsPlayer(w.Ents[i]) => st.Entities[i].Attack = w.Ents[i].Attack

MaxAttackTick == 183

\* The intents a step carries in the attack specification.
AttackIntents == {IntentNone, IntentAttack}

\* The world of the attack tests: NewWorld and SpawnPlayer(1, "Test", 10, 10).
AttackWorld == SpawnPlayer(NewWorld, 1, ToFloat(10), ToFloat(10))

\* Idle: neither charging nor in the punch cooldown.
IsIdle(a) == ~a.Charging /\ ~a.Attacking

\* The history after a step with intents i from World w: the length of the
\* hold of the attack intent in progress, whether it began from Idle, and the
\* length of the hold from Idle that this step ended (0 if none).
HistAfter(h, w, i) ==
    [prev |-> h.prev,
     input |-> h.input,
     held |-> IF HasIntent(i, IntentAttack) THEN h.held + 1 ELSE 0,
     fromIdle |-> IF HasIntent(i, IntentAttack)
                  THEN (IF h.held = 0 THEN IsIdle(w.Ents[1].Attack) ELSE h.fromIdle)
                  ELSE FALSE,
     released |-> IF ~HasIntent(i, IntentAttack) /\ h.fromIdle THEN h.held ELSE 0]

\* One step of a test: SetPlayerIntent(1, i), then Update.
AttackStep(i) ==
    /\ gw.Tick < MaxAttackTick
    /\ gw' = Update(SetPlayerIntent(gw, 1, i))
    /\ UNCHANGED sbuf
    /\ gh' = HistAfter(gh, gw, i)
    /\ UNCHANGED <<serverVars, syncVars, reconVars>>

AttackInit ==
    /\ gw = AttackWorld
    /\ sbuf = None
    /\ gh = NoHist

SpecAttackInit == ServerInit /\ SyncIdle /\ ReconIdle /\ AttackInit

SpecAttackNext == \E i \in AttackIntents : AttackStep(i)

SpecAttack == SpecAttackInit /\ [][SpecAttackNext]_vars

\* The fists the last Update spawned: runFistSystem has moved them once.
NewFists(w) ==
    {j \in DOMAIN w.Fists : FistTraveled(w.Fists[j]) = FistSpeed * MaxChargeTicks}

\* C12: after every Update no player is both Charging and Attacking, and its
\* ChargeTicks lies in 0..MaxChargeTicks.
C12_AttackStateInvariant ==
    \A j \in DOMAIN gw.Ents : IsPlayer(gw.Ents[j]) =>
        /\ ~(gw.Ents[j].Attack.Charging /\ gw.Ents[j].Attack.Attacking)
        /\ gw.Ents[j].Attack.ChargeTicks >= 0
        /\ gw.Ents[j].Attack.ChargeTicks <= MaxChargeTicks

\* The intent has been held for longer than MaxChargeTicks and the counter
\* stands at the clamp.
C12_Witness ==
    /\ gh.held > MaxChargeTicks
    /\ gw.Ents[1].Attack.Charging
    /\ gw.Ents[1].Attack.ChargeTicks = MaxChargeTicks

ChargeLaw(k) ==
    MinFistDistance * MaxChargeTicks
        + (IF k > MaxChargeTicks THEN MaxChargeTicks ELSE k)
            * (MaxFistDistance - MinFistDistance)

\* C14: the fist spawned on the release of a hold of k ticks has MaxDistance
\* MinFistDistance + (min(k, MaxChargeTicks) / MaxChargeTicks) *
\* (MaxFistDistance - MinFistDistance): no shorter hold gives more, a hold of
\* MaxChargeTicks gives MaxFistDistance, and no hold gives more than that.
C14_ChargeDistanceLaw ==
    \A j \in NewFists(gw) :
        /\ gh.released >= 1
        /\ gw.Fists[j].MaxDistance = ChargeLaw(gh.released)
        /\ \A t \in 1..gh.released : ChargeLaw(t) <= gw.Fists[j].MaxDistance
        /\ gh.released = MaxChargeTicks =>
              gw.Fists[j].MaxDistance = MaxFistDistance * MaxChargeTicks
        /\ gw.Fists[j].MaxDistance <= MaxFistDistance * MaxChargeTicks

\* A hold of exactly MaxChargeTicks ticks has just been released.
C14_Witness ==
    /\ gh.released = MaxChargeTicks
    /\ NewFists(gw) # {}

\* C15: the fist of a single-tick press from Idle, released on the next tick,
\* has MaxDistance equal to MinFistDistance.
C15_MinimumChargeFist ==
    gh.released = 1 =>
        \A j \in NewFists(gw) :
            gw.Fists[j].MaxDistance = MinFistDistance * MaxChargeTicks

(***************************************************************************)
(* game.World driven directly: movement, jumping and collision on a range  *)
(* of tile layouts.                                                        *)
(***************************************************************************)
\* The length of the runs of the physics specification, in ticks.
MaxPhysTick == 8

\* The intents a step carries: every combination of left, right and jump.
PhysIntents ==
    {l + r + j : l \in {0, IntentLeft}, r \in {0, IntentRight}, j \in {0, IntentJump}}

\* The floor row of game.DemoLevelForViewport alone.
FloorRow == {<<x, MapHeight - 1>> : x \in 0..(MapWidth - 1)}

\* Tiles set on top of a base layout: a platform and a block on the floor.
ExtraTiles == {<<2, 1>>, <<1, 2>>}

\* The tile layouts: none, floor only, floor and walls, each with any of the
\* extra tiles.
Layouts ==
    {[Width |-> MapWidth, Height |-> MapHeight, Solid |-> base \cup extra] :
        base \in {{}, FloorRow, DemoLevel.Solid}, extra \in SUBSET ExtraTiles}

\* Where the player is spawned: on the floor row, near the top left corner,
\* beyond the bottom right corner, and on the platform.
PlayerSpawns ==
    {<<250, ToFloat(MapHeight - 1) - colH>>, <<20, 50>>,
     <<ToFloat(MapWidth) - 10, ToFloat(MapHeight) - 50>>, <<250, ToFloat(1) - colH>>}

\* NewWorld, SetTileMap, SpawnPlayer, SpawnEnemy.
PhysWorld(tm, at) ==
    SpawnEnemy(SpawnPlayer(SetTileMap(NewWorld, tm), 1, at[1], at[2]),
        450, ToFloat(MapHeight - 2) - colH)

\* The history of a physics run: no Update yet, no jump yet.
PhysHist == [prev |-> NewWorld, input |-> <<>>, sinceJump |-> "none"]

\* Whether the player is in the air from a jump.
Airborne(h) == h.sinceJump \in {"airborne", "again"}

\* What happened to player 1 since its last jump trigger, after an Update
\* from World before to World after: "none" until the first jump, "airborne"
\* from the first jump trigger on and "again" from a later one, "landed"
\* once an Update after a jump ended with OnGround set.
SinceJumpAfter(h, before, after) ==
    IF HasIntent(before.Ents[1].Intents, IntentJump) /\ before.Ents[1].OnGround
    THEN (IF h.sinceJump = "none" THEN "airborne" ELSE "again")
    ELSE IF Airborne(h) /\ after.Ents[1].OnGround THEN "landed"
    ELSE h.sinceJump

PhysInit ==
    /\ gw \in {PhysWorld(tm, at) : tm \in Layouts, at \in PlayerSpawns}
    /\ sbuf = None
    /\ gh = PhysHist

\* One step: SetPlayerIntent(1, i), then Update.  The history keeps the World
\* the Update started from, the entities as the input system left them, and
\* whether the player has landed since its last jump.
PhysStep(i) ==
    /\ gw.Tick < MaxPhysTick
    /\ gw' = Update(SetPlayerIntent(gw, 1, i))
    /\ UNCHANGED sbuf
    /\ gh' = [gh EXCEPT !.prev = SetPlayerIntent(gw, 1, i),
                        !.input = runInputSystem(SetPlayerIntent(gw, 1, i)).Ents,
                        !.sinceJump = SinceJumpAfter(gh, SetPlayerIntent(gw, 1, i),
                                          Update(SetPlayerIntent(gw, 1, i)))]
    /\ UNCHANGED <<serverVars, syncVars, reconVars>>

SpecPhysInit == ServerInit /\ SyncIdle /\ ReconIdle /\ PhysInit

SpecPhysNext == \E i \in PhysIntents : PhysStep(i)

SpecPhys == SpecPhysInit /\ [][SpecPhysNext]_vars

\* The entities an Update has just handled: the World has made a step.
Stepped == gw.Tick >= 1 /\ gw.TileMap # None

\* C16: after the input system a controllable entity's Velocity.X is
\* -moveSpeed for IntentLeft alone, +moveSpeed for IntentRight alone, and 0
\* when both or neither are set, whatever it was before.
C16_LeftRightCancel ==
    \A j \in DOMAIN gh.input : IsPlayer(gh.input[j]) =>
        gh.input[j].Vel.X =
            IF HasIntent(gh.input[j].Intents, IntentLeft)
                   /\ ~HasIntent(gh.input[j].Intents, IntentRight) THEN -moveSpeed
            ELSE IF HasIntent(gh.input[j].Intents, IntentRight)
                   /\ ~HasIntent(gh.input[j].Intents, IntentLeft) THEN moveSpeed
            ELSE 0

\* The entity's jump intent is set and it is on the ground as the Update starts.
JumpsFrom(w, j) ==
    /\ IsPlayer(w.Ents[j])
    /\ HasIntent(w.Ents[j].Intents, IntentJump)
    /\ w.Ents[j].OnGround

\* C17 as stated: after an Update that started with IntentJump set on a
\* grounded entity, its Velocity.Y is the jump speed and OnGround is false.
C17_JumpTickAsStated ==
    Stepped => \A j \in DOMAIN gw.Ents : JumpsFrom(gh.prev, j) =>
        /\ gw.Ents[j].Vel.Y \in {-jumpSpeed, jumpSpeed}
        /\ ~gw.Ents[j].OnGround

\* C17: after an Update that started with IntentJump set on a grounded entity,
\* its Velocity.Y is the upward jump speed less one tick of gravity, or 0 with
\* its head put under the solid tile that stopped it, and OnGround is false.
C17_JumpTick ==
    Stepped => \A j \in DOMAIN gw.Ents : JumpsFrom(gh.prev, j) =>
        /\ \/ gw.Ents[j].Vel.Y = -jumpSpeed + gravityAccel * gw.Ents[j].GravScale
           \/ /\ gw.Ents[j].Vel.Y = 0
              /\ gw.Ents[j].Pos.Y % Scale = 0
              /\ gw.Ents[j].Pos.Y > gh.prev.Ents[j].Pos.Y - jumpSpeed
        /\ ~gw.Ents[j].OnGround

\* A player that had landed has jumped and is rising.
C17_Witness ==
    /\ Stepped
    /\ JumpsFrom(gh.prev, 1)
    /\ gw.Ents[1].Vel.Y = -jumpSpeed + gravityAccel
    /\ gw.Ents[1].Pos.Y = gh.prev.Ents[1].Pos.Y - jumpSpeed + gravityAccel

\* The entity stands on a solid tile: at rest, its feet on the tile's top.
StandsOnSolid(w, j) ==
    /\ w.TileMap # None
    /\ w.Ents[j].Vel.Y = 0
    /\ (w.Ents[j].Pos.Y + colH) % Scale = 0
    /\ IsSolid(w.TileMap[1], TruncInt(w.Ents[j].Pos.X), TruncInt(w.Ents[j].Pos.Y + colH))

NoIntents(e) == IsPlayer(e) => e.Intents = IntentNone

\* C18: an Update of a World in which an entity stands on a solid tile with no
\* intents set adds one to Tick, leaves the entity where it is and leaves it
\* on the ground.
C18_RestingIsFixedPoint ==
    Stepped => \A j \in DOMAIN gw.Ents :
        (StandsOnSolid(gh.prev, j) /\ NoIntents(gh.prev.Ents[j])) =>
            /\ gw.Tick = gh.prev.Tick + 1
            /\ gw.Ents[j].Pos = gh.prev.Ents[j].Pos
            /\ gw.Ents[j].OnGround

\* The player has moved, come to rest on a tile, and stayed through an Update
\* without intents.
C18_Witness ==
    /\ Stepped
    /\ gw.Tick >= 3
    /\ StandsOnSolid(gh.prev, 1)
    /\ gh.prev.Ents[1].Intents = IntentNone
    /\ gh.prev.Ents[1].OnGround
    /\ gw.Ents[1].Pos.X # 250

\* C19: with a TileMap set, after every Update every physics entity lies
\* within colW/2 .. Width - colW/2 horizontally and 0 .. Height - colH
\* vertically, and every tile lookup outside the map answers solid.
C19_NoEntityLeavesWorld ==
    Stepped =>
        /\ \A j \in DOMAIN gw.Ents :
              /\ gw.Ents[j].Pos.X >= colW \div 2
              /\ gw.Ents[j].Pos.X <= ToFloat(gw.TileMap[1].Width) - (colW \div 2)
              /\ gw.Ents[j].Pos.Y >= 0
              /\ gw.Ents[j].Pos.Y <= ToFloat(gw.TileMap[1].Height) - colH
        /\ \A x \in -2..(gw.TileMap[1].Width + 1), y \in -2..(gw.TileMap[1].Height + 1) :
              (x < 0 \/ x >= gw.TileMap[1].Width \/ y < 0 \/ y >= gw.TileMap[1].Height)
                  => IsSolid(gw.TileMap[1], x, y)

\* On a map without any tile the player walks into the right edge and is held
\* there, on the bottom edge.
C19_Witness ==
    /\ Stepped
    /\ gw.TileMap[1].Solid = {}
    /\ gh.prev.Ents[1].Pos.X + gh.input[1].Vel.X
           > ToFloat(gw.TileMap[1].Width) - (colW \div 2)
    /\ gw.Ents[1].Pos.X = ToFloat(gw.TileMap[1].Width) - (colW \div 2)
    /\ gw.Ents[1].Pos.Y = ToFloat(gw.TileMap[1].Height) - colH

(***************************************************************************)
(* client.PredictionBuffer on its own: any sequence of RecordInput,        *)
(* RecordState, PruneBefore and Clear, for every capacity from 1 up.       *)
(***************************************************************************)
\* The ticks the recorded frames and states carry.
MaxBufTick == 2

BufFrames == [Tick : 1..MaxBufTick, Intents : {IntentNone, IntentRight}]

\* WorldSnapshot values: only the tick tells them apart.
BufStates == [Tick : 1..MaxBufTick, Entities : {<<>>}, Checksum : {ZeroSum}]

\* The history of the buffer: the last call, its argument, the buffer before.
BufHist(op, arg, b) == [op |-> op, arg |-> arg, before |-> b]

BufInit ==
    /\ \E c \in 1..BufCapacity : buf = NewPredictionBuffer(c)
    /\ cw = NewWorld
    /\ sw = NewWorld
    /\ rec = NoRec
    /\ gw = NewWorld
    /\ sbuf = None
    /\ gh = BufHist("NewPredictionBuffer", None, buf)

BufRecordInput(frame) ==
    /\ buf' = RecordInput(buf, frame)
    /\ gh' = BufHist("RecordInput", frame, buf)
    /\ UNCHANGED <<cw, sw, rec, gw, sbuf>>
    /\ UNCHANGED <<serverVars, syncVars>>

BufRecordState(state) ==
    /\ buf' = RecordState(buf, state)
    /\ gh' = BufHist("RecordState", state, buf)
    /\ UNCHANGED <<cw, sw, rec, gw, sbuf>>
    /\ UNCHANGED <<serverVars, syncVars>>

BufPruneBefore(t) ==
    /\ buf' = PruneBefore(buf, t)
    /\ gh' = BufHist("PruneBefore", t, buf)
    /\ UNCHANGED <<cw, sw, rec, gw, sbuf>>
    /\ UNCHANGED <<serverVars, syncVars>>

BufClear ==
    /\ buf' = Clear(buf)
    /\ gh' = BufHist("Clear", None, buf)
    /\ UNCHANGED <<cw, sw, rec, gw, sbuf>>
    /\ UNCHANGED <<serverVars, syncVars>>

SpecBufferInit == ServerInit /\ SyncIdle /\ BufInit

SpecBufferNext ==
    \/ \E frame \in BufFrames : BufRecordInput(frame)
    \/ \E state \in BufStates : BufRecordState(state)
    \/ \E t \in 1..(MaxBufTick + 1) : BufPruneBefore(t)
    \/ BufClear

SpecBuffer == SpecBufferInit /\ [][SpecBufferNext]_vars

\* C20: InputCount and StateCount never exceed the capacity, and a Record on
\* a full buffer drops exactly the oldest entry of that list, whatever its
\* tick, keeps the others in order and puts the new entry last.
C20_BuffersBoundedEvictOldest ==
    /\ InputCount(buf) <= buf.capacity
    /\ StateCount(buf) <= buf.capacity
    /\ (gh.op = "RecordInput" /\ InputCount(gh.before) = buf.capacity) =>
          /\ buf.inputs = Tail(gh.before.inputs) \o <<gh.arg>>
          /\ buf.states = gh.before.states
    /\ (gh.op = "RecordState" /\ StateCount(gh.before) = buf.capacity) =>
          /\ buf.states = Tail(gh.before.states) \o <<gh.arg>>
          /\ buf.inputs = gh.before.inputs

\* A full buffer of capacity two or more has taken an input older than the
\* entry it dropped.
C20_Witness ==
    /\ gh.op = "RecordInput"
    /\ buf.capacity >= 2
    /\ InputCount(gh.before) = buf.capacity
    /\ gh.before.inputs[1].Tick > gh.arg.Tick
    /\ InputCount(buf) = buf.capacity
    /\ StateCount(buf) = buf.capacity

(***************************************************************************)
(* World.Snapshot and World.Restore around Updates: a snapshot is taken,   *)
(* the World runs on, the snapshot is restored and a new one taken.        *)
(***************************************************************************)
\* The length of the runs, in ticks, and the number of Restores in a run.
MaxRtTick == 4
MaxRestores == 1

RtIntents == {IntentNone, IntentRight, IntentJump, IntentAttack}

\* The level with a player on the floor and an enemy in the air.
RtWorld == SpawnEnemy(ReconWorld, 350, 50)

\* The history: the WorldState S kept by the caller, the Snapshot taken right
\* before the last Restore, and the one taken right after it.
RtHist(S, before, again, n) ==
    [S |-> S, before |-> before, again |-> again, restores |-> n]

RtInit ==
    /\ gw = RtWorld
    /\ sbuf = None
    /\ gh = RtHist(None, None, None, 0)

RtUpdate(i) ==
    /\ gw.Tick < MaxRtTick
    /\ gw' = Update(SetPlayerIntent(gw, 1, i))
    /\ UNCHANGED sbuf
    /\ UNCHANGED gh
    /\ UNCHANGED <<serverVars, syncVars, reconVars>>

\* S := world.Snapshot().
RtSnapshot ==
    /\ gh.S = None
    /\ gh' = RtHist(Some(Snapshot(gw)), None, None, 0)
    /\ UNCHANGED <<gw, sbuf>>
    /\ UNCHANGED <<serverVars, syncVars, reconVars>>

\* world.Restore(S), then world.Snapshot().
RtRestore ==
    /\ gh.S # None
    /\ gh.restores < MaxRestores
    /\ gw' = Restore(gw, gh.S[1])
    /\ UNCHANGED sbuf
    /\ gh' = RtHist(gh.S, Some(Snapshot(gw)), Some(Snapshot(Restore(gw, gh.S[1]))),
                    gh.restores + 1)
    /\ UNCHANGED <<serverVars, syncVars, reconVars>>

SpecRoundTripInit == ServerInit /\ SyncIdle /\ ReconIdle /\ RtInit

SpecRoundTripNext ==
    \/ \E i \in RtIntents : RtUpdate(i)
    \/ RtSnapshot
    \/ RtRestore

SpecRoundTrip == SpecRoundTripInit /\ [][SpecRoundTripNext]_vars

MaxRemoved == 1

\* The entities the snapshots of this specification carry.
ApplyEntities == [ID : {1, 2}, Components : {<<>>, <<1>>}]

\* protocol.StateSnapshot values.
WireSnapshots ==
    [Tick : {1}, Full : BOOLEAN, Baseline : {0, 1},
     Entities : SeqsUpTo(ApplyEntities, MaxCur),
     Removed : SeqsUpTo({1, 2}, MaxRemoved)]

\* The history: the state before the snapshot was first applied, the state
\* after that first Apply, and how often it has been applied in a row.
ApplyHist(before, once, n) == [before |-> before, once |-> once, count |-> n]

ApplyInit ==
    /\ baseline = NewBaseline
    /\ current = <<>>
    /\ recvState = EmptyMap
    /\ snap = NoSnap
    /\ syncPc = "idle"
    /\ gw = NewWorld
    /\ sbuf = None
    /\ gh = ApplyHist(EmptyMap, EmptyMap, 0)

\* A snapshot arrives: sync.Apply(state, &sn).
ApplyNew(sn) ==
    /\ snap' = Some(sn)
    /\ recvState' = Apply(recvState, sn)
    /\ gh' = ApplyHist(recvState, Apply(recvState, sn), 1)
    /\ UNCHANGED <<baseline, current, syncPc, gw, sbuf>>
    /\ UNCHANGED <<serverVars, reconVars>>

\* The same snapshot is applied again, right after.
ApplyAgain ==
    /\ snap # NoSnap
    /\ gh.count = 1
    /\ recvState' = Apply(recvState, snap[1])
    /\ gh' = [gh EXCEPT !.count = 2]
    /\ UNCHANGED <<baseline, current, snap, syncPc, gw, sbuf>>
    /\ UNCHANGED <<serverVars, reconVars>>

SpecApplyInit == ServerInit /\ ReconIdle /\ ApplyInit

SpecApplyNext ==
    \/ \E sn \in WireSnapshots : ApplyNew(sn)
    \/ ApplyAgain

SpecApply == SpecApplyInit /\ [][SpecApplyNext]_vars

\* C22: a Full snapshot applied twice in a row leaves the state its first
\* Apply left.
C22_FullApplyIdempotent ==
    (gh.count = 2 /\ snap[1].Full) => recvState = gh.once

\* A Full snapshot with entities has been applied twice to a state that held
\* other entities before.
C22_Witness ==
    /\ gh.count = 2
    /\ snap[1].Full
    /\ snap[1].Entities # <<>>
    /\ gh.before # EmptyMap
    /\ gh.before # gh.once
    /\ \E id \in DOMAIN gh.once : id \in DOMAIN gh.before

\* C23: after a Full snapshot (of distinct ids) is applied the state holds
\* exactly the snapshot's Entities, whatever the state before and whatever
\* the snapshot's Baseline and Removed.
C23_FullIsCompleteReplacement ==
    (gh.count >= 1 /\ snap[1].Full /\ DistinctIDs(snap[1].Entities)) =>
        /\ DOMAIN recvState = {snap[1].Entities[i].ID : i \in DOMAIN snap[1].Entities}
        /\ \A i \in DOMAIN snap[1].Entities :
              recvState[snap[1].Entities[i].ID] = snap[1].Entities[i]

\* The indices of the entities of cur that are new or changed against b.
ChangedAt(b, cur) ==
    {i \in DOMAIN cur :
        \/ cur[i].ID \notin DOMAIN b.entities
        \/ b.entities[cur[i].ID] # cur[i].Components}

\* The k-th smallest element of a set of indices.
NthOf(idx, k) == CHOOSE i \in idx : Cardinality({j \in idx : j < i}) = k - 1

\* C24: Diff(B, C) is a delta against B's tick; its Entities are exactly the
\* entities of C that are new or whose bytes differ, in C's order; its
\* Removed are exactly the ids of B absent from C, each once; no id is in both.
C24_DiffIsMinimalChangeSet ==
    syncPc = "apply" =>
        /\ snap[1].Full = FALSE
        /\ snap[1].Baseline = baseline.tick
        /\ Len(snap[1].Entities) = Cardinality(ChangedAt(baseline, current))
        /\ \A k \in DOMAIN snap[1].Entities :
              snap[1].Entities[k] = current[NthOf(ChangedAt(baseline, current), k)]
        /\ Range(snap[1].Removed) =
              {id \in DOMAIN baseline.entities :
                  \A i \in DOMAIN current : current[i].ID # id}
        /\ Len(snap[1].Removed) = Cardinality(Range(snap[1].Removed))
        /\ \A k \in DOMAIN snap[1].Entities :
              snap[1].Entities[k].ID \notin Range(snap[1].Removed)

\* Against a baseline of two entities, the current list keeps one of them
\* unchanged and adds a new one after it: the delta carries the new entity
\* alone and removes the other.
C24_Witness ==
    /\ syncPc = "apply"
    /\ Cardinality(DOMAIN baseline.entities) = 2
    /\ Len(current) = 2
    /\ ChangedAt(baseline, current) = {2}
    /\ Len(snap[1].Entities) = 1
    /\ Len(snap[1].Removed) = 1

(***************************************************************************)
(* sync.SnapshotBuffer.  b.snapshots is a Go slice: arr is its backing     *)
(* array as far as it has been written, n its length.                      *)
(***************************************************************************)
\* The largest capacity, and the number of snapshots a run adds.
SbCapacity == 3
MaxSbAdds == 5

NewSnapshotBuffer(capacity) == [arr |-> <<>>, n |-> 0, capacity |-> capacity]

\* The elements of the slice, oldest first.
Contents(b) == SubSeq(b.arr, 1, b.n)

\* A reslice without the copy: the last element goes, not the first.
DropNewest(b) == [b EXCEPT !.n = @ - 1]

\* copy(b.snapshots, b.snapshots[1:]); b.snapshots = b.snapshots[:len-1].
DropOldest(b) ==
    [b EXCEPT !.arr = SubSeq(@, 2, b.n) \o SubSeq(@, b.n, Len(@)),
              !.n = @ - 1]

\* append(b.snapshots, sn): in place while the backing array has room.
AppendSlice(b, sn) ==
    [b EXCEPT !.arr = IF b.n < Len(@) THEN [@ EXCEPT ![b.n + 1] = sn]
                      ELSE Append(SubSeq(@, 1, b.n), sn),
              !.n = @ + 1]

Add(b, sn) ==
    AppendSlice(IF b.n >= b.capacity THEN DropOldest(b) ELSE b, sn)

\* Get: (nil, nil) is None.
Get(b) == IF b.n < 2 THEN None ELSE Some(<<b.arr[1], b.arr[2]>>)

Advance(b) == IF b.n > 0 THEN DropOldest(b) ELSE b

SnapshotBufferLen(b) == b.n

\* The snapshots a run adds: only the tick tells them apart.
SbSnapshots ==
    [Tick : {1, 2}, Full : {TRUE}, Baseline : {0}, Entities : {<<>>}, Removed : {<<>>}]

\* The history: every snapshot added so far, how many of them have left at
\* the front (evicted or advanced past), and what the last Get returned if no
\* Add or Advance came after it.
SbHist(added, gone, got) == [added |-> added, gone |-> gone, got |-> got]

SbInit ==
    /\ \E c \in 2..SbCapacity : sbuf = NewSnapshotBuffer(c)
    /\ gw = NewWorld
    /\ gh = SbHist(<<>>, 0, None)

SbAdd(sn) ==
    /\ Len(gh.added) < MaxSbAdds
    /\ sbuf' = Add(sbuf, sn)
    /\ gh' = SbHist(Append(gh.added, sn),
                    IF Len(gh.added) - gh.gone >= sbuf.capacity
                    THEN gh.gone + 1 ELSE gh.gone,
                    None)
    /\ UNCHANGED gw
    /\ UNCHANGED <<serverVars, syncVars, reconVars>>

SbAdvance ==
    /\ sbuf' = Advance(sbuf)
    /\ gh' = SbHist(gh.added,
                    IF Len(gh.added) > gh.gone THEN gh.gone + 1 ELSE gh.gone,
                    None)
    /\ UNCHANGED gw
    /\ UNCHANGED <<serverVars, syncVars, reconVars>>

SbGet ==
    /\ gh.got = None
    /\ gh' = [gh EXCEPT !.got = Some(Get(sbuf))]
    /\ UNCHANGED <<gw, sbuf>>
    /\ UNCHANGED <<serverVars, syncVars, reconVars>>

SpecSnapBufInit == ServerInit /\ SyncIdle /\ ReconIdle /\ SbInit

SpecSnapBufNext ==
    \/ \E sn \in SbSnapshots : SbAdd(sn)
    \/ SbAdvance
    \/ SbGet

SpecSnapBuf == SpecSnapBufInit /\ [][SpecSnapBufNext]_vars

\* The snapshots added and not yet evicted or advanced past, oldest first.
StillBuffered == SubSeq(gh.added, gh.gone + 1, Len(gh.added))

\* C25: Len() never exceeds the capacity; the buffer holds the snapshots
\* added and not yet evicted or advanced past, in arrival order; Get returns
\* the two oldest of them exactly when there are two, and (nil, nil) otherwise.
C25_SnapshotBufferIsBoundedFifo ==
    /\ SnapshotBufferLen(sbuf) <= sbuf.capacity
    /\ SnapshotBufferLen(sbuf) = Len(StillBuffered)
    /\ Contents(sbuf) = StillBuffered
    /\ gh.got # None =>
          gh.got[1] = IF Len(StillBuffered) >= 2
                      THEN Some(<<StillBuffered[1], StillBuffered[2]>>)
                      ELSE None

\* More snapshots than the capacity have been added and two have left at the
\* front; the buffer holds two of different ticks and Get has returned them.
C25_Witness ==
    /\ gh.gone >= 2
    /\ Len(gh.added) > sbuf.capacity
    /\ SnapshotBufferLen(sbuf) = 2
    /\ gh.got # None
    /\ gh.got[1] # None
    /\ gh.got[1][1][1].Tick # gh.got[1][1][2].Tick
(***************************************************************************)
(* Shutdown under fair scheduling.                                         *)
(***************************************************************************)

\* The bookkeeping steps of one processTick and broadcastState, once the
\* ticker case was taken: the goroutine is scheduled and the state callback
\* returns.
LoopStep(l) ==
    \/ \E sid \in SessionIDs : PtDrain(l, sid)
    \/ PtUpdateBegin(l)
    \/ BcCallback(l)

\* World.Update returns, and broadcastState gets its read lock and its
\* Snapshot returns.  PtUpdateEnd(l) is enabled exactly while the loop is
\* inside Update, BcSnapshot(l) exactly while it is at broadcastState with
\* the write lock free, and a step of either leaves that position: these
\* are WF_vars(PtUpdateEnd(l)) and WF_vars(BcSnapshot(l)) written out.
UpdateReturns(l) ==
    /\ []<>(loopPc[l] # "update")
    /\ []<>~(loopPc[l] = "broadcast" /\ CanRLock)

\* Scheduling of the goroutines of the server.  A running goroutine takes
\* its next step (weak fairness); the select of runTickLoop is entered again
\* after every tick and picks among its ready cases at random, so the quit
\* case, ready from close(s.quitCh) on, cannot lose forever (strong
\* fairness).
LifeFairness ==
    /\ \A l \in Loops :
          WF_vars(LoopStep(l)) /\ UpdateReturns(l) /\ SF_vars(LoopQuit(l))
    /\ \A c \in Stoppers : WF_vars(StopClose(c)) /\ WF_vars(StopWait(c))

SpecLifeFair == SpecServerInit /\ [][SpecLifeNext]_vars /\ LifeFairness

\* C26: a Stop that found the server running (it goes on to close quitCh)
\* leads to the tick loop having exited and that Stop having returned; a
\* Stop that finds the server not running returns in the same step, with
\* nothing closed and nothing waited for.
C26_ShutdownTerminates ==
    /\ \A c \in Stoppers :
          (stopPc[c] = "close") ~>
              (stopPc[c] = "returned" /\ \A l \in Loops : loopPc[l] = "exited")
    /\ [][\A c \in Stoppers :
            (stopPc[c] = "idle" /\ ~running /\ stopPc'[c] # "idle")
                => (stopPc'[c] = "returned" /\ UNCHANGED <<quitClosed, doneClosed>>)]_vars

\* A Stop called on the started server has returned after the loop ran both
\* ticks and exited, and the other Stop, finding the server stopped, has
\* returned too.
C26_Witness ==
    /\ tick = MaxTick
    /\ \A l \in Loops : loopPc[l] = "exited"
    /\ \A c \in Stoppers : stopPc[c] = "returned"
    /\ hist.stopOnStarted = Stoppers
(***************************************************************************)
(* The cooldown after a fist, under SpecAttack.                            *)
(***************************************************************************)

C28_PressDuringCooldownConsumed ==
    /\ (gh.held >= 1 /\ ~gh.fromIdle) =>
          (~gw.Ents[1].Attack.Charging /\ NewFists(gw) = {})
    /\ (gh.held = 0 /\ gh.released = 0) =>
          (~gw.Ents[1].Attack.Charging /\ NewFists(gw) = {})
    /\ gw.Ents[1].Attack.Charging => (gh.held >= 1 /\ gh.fromIdle)

\* The intent was pressed during a cooldown and has been held ever since,
\* for longer than a whole cooldown: the state is Idle and nothing charges.
C28_Witness ==
    /\ gh.held > AttackCooldown + 1
    /\ ~gh.fromIdle
    /\ IsIdle(gw.Ents[1].Attack)
    /\ gw.Ents[1].Attack.AttackWasPressed
(***************************************************************************)
(* Jumping, under SpecPhys.                                                *)
(***************************************************************************)

\* The World as the physics system of the Update from World w leaves it,
\* before the collision system runs.
BeforeCollision(w) ==
    runPhysicsSystem(runFistSystem(runAttackSystem(
        runInputSystem([w EXCEPT !.Tick = @ + 1]))))

\* C29: in every Update the input system changes Velocity.Y or OnGround of
\* an entity only if the Update started with IntentJump set and OnGround
\* true, and then to the jump velocity; a jump trigger of the player never
\* comes while it is airborne from its previous jump trigger: an Update in
\* between ended with OnGround set; and OnGround at the end of an Update
\* was set by the collision system of that Update, with Velocity.Y = 0.
C29_NoDoubleJump ==
    [][/\ \A j \in DOMAIN gh'.input :
              (\/ gh'.input[j].Vel.Y # gh'.prev.Ents[j].Vel.Y
               \/ gh'.input[j].OnGround # gh'.prev.Ents[j].OnGround)
                  => (JumpsFrom(gh'.prev, j) /\ gh'.input[j].Vel.Y = -jumpSpeed)
       /\ JumpsFrom(gh'.prev, 1) => ~Airborne(gh)
       /\ \A j \in DOMAIN gw'.Ents : gw'.Ents[j].OnGround =>
              /\ gw'.Ents[j].Vel.Y = 0
              /\ ~BeforeCollision(gh'.prev).Ents[j].OnGround]_vars

\* The player has jumped, landed and, in the Update just done, jumped
\* again: it is rising with the jump velocity less one tick of gravity.
C29_Witness ==
    /\ Stepped
    /\ JumpsFrom(gh.prev, 1)
    /\ gh.sinceJump = "again"
    /\ gw.Ents[1].Vel.Y = -jumpSpeed + gravityAccel
    /\ ~gw.Ents[1].OnGround
(***************************************************************************)
(* Fists in flight: runs that take any press/release sequence for          *)
(* MaxFistTick Updates and then go on with the intent released for as long *)
(* as a fist is in flight.                                                 *)
(***************************************************************************)
\* The Updates with free input, and the Updates a run goes on afterwards.
MaxFistTick == 60
MaxFlight == 26

\* The player of the attack tests, facing right as spawned, or facing left
\* after one Update with IntentLeft.
FistWorlds == {AttackWorld, Update(SetPlayerIntent(AttackWorld, 1, IntentLeft))}

FistInit ==
    /\ gw \in FistWorlds
    /\ sbuf = None
    /\ gh = NoHist

\* One step of a test: SetPlayerIntent(1, i), then Update.
FistStep(i) ==
    /\ gw.Tick < MaxFistTick
    /\ gw' = Update(SetPlayerIntent(gw, 1, i))
    /\ UNCHANGED <<gh, sbuf>>
    /\ UNCHANGED <<serverVars, syncVars, reconVars>>

\* The tick loop goes on calling Update, the intent released, while a fist
\* is in flight.
FistFlight ==
    /\ gw.Tick >= MaxFistTick
    /\ gw.Tick < MaxFistTick + MaxFlight
    /\ gw.Fists # <<>>
    /\ gw' = Update(SetPlayerIntent(gw, 1, IntentNone))
    /\ UNCHANGED <<gh, sbuf>>
    /\ UNCHANGED <<serverVars, syncVars, reconVars>>

SpecFistInit == ServerInit /\ SyncIdle /\ ReconIdle /\ FistInit

SpecFistNext == (\E i \in AttackIntents : FistStep(i)) \/ FistFlight

\* Update is called tick after tick.
SpecFistFair ==
    /\ SpecFistInit /\ [][SpecFistNext]_vars
    /\ WF_vars(\E i \in AttackIntents : FistStep(i))
    /\ WF_vars(FistFlight)
\* A fist one Update further along its spawn direction.
Advanced(f) ==
    [f EXCEPT !.Pos.X = @ + (IF f.FacingRight THEN FistSpeed ELSE -FistSpeed)]

\* The fists of World w, each advanced, less those then at or past their
\* MaxDistance.
StillFlying(w) ==
    SelectSeq([j \in DOMAIN w.Fists |-> Advanced(w.Fists[j])],
              LAMBDA f : FistTraveled(f) < f.MaxDistance)

\* C30: every Update advances every fist by exactly FistSpeed along its
\* spawn direction, keeps those whose travelled distance is then below
\* their MaxDistance and removes the others, none skipped, so that after
\* an Update no fist has travelled MaxDistance or more; and in every run
\* in which Update keeps being called there comes a point from which no
\* fist is left.
C30_EveryFistDespawned ==
    /\ [][/\ Len(gw'.Fists) \in {Len(StillFlying(gw)), Len(StillFlying(gw)) + 1}
           /\ SubSeq(gw'.Fists, 1, Len(StillFlying(gw))) = StillFlying(gw)
           /\ \A j \in DOMAIN gw'.Fists :
                  /\ FistTraveled(gw'.Fists[j]) < gw'.Fists[j].MaxDistance
                  /\ FistTraveled(gw'.Fists[j]) >= FistSpeed * MaxChargeTicks
                  /\ j > Len(StillFlying(gw)) =>
                         FistTraveled(gw'.Fists[j]) = FistSpeed * MaxChargeTicks]_vars
    /\ <>[](gw.Fists = <<>>)

\* After the free input of a run the Updates went on until its last fist,
\* fired to the left, was removed.
C30_Witness ==
    /\ gw.Tick > MaxFistTick + 1
    /\ gw.Fists = <<>>
    /\ ~gw.Ents[1].Attack.FacingRight
    /\ gw.Ents[1].Attack.Attacking
(***************************************************************************)
(* Reconciler.statesMatch on pairs of states: a predicted snapshot out of  *)
(* the prediction buffer against an authoritative WorldState.              *)
(***************************************************************************)
\* The longest entity list of a state.
MaxMatchEnts == 1

\* Positions of an entity near the floor of the level, and one tick of
\* falling higher.
MatchPositions ==
    {[X |-> ToFloat(2), Y |-> ToFloat(MapHeight - 1) - colH],
     [X |-> ToFloat(2) + moveSpeed, Y |-> ToFloat(MapHeight - 1) - colH],
     [X |-> ToFloat(2), Y |-> ToFloat(MapHeight - 1) - colH - gravityAccel]}

\* game.EntityState, the fields the comparison and the checksum read.
MatchEntities ==
    [Position : MatchPositions, Velocity : {[X |-> 0, Y |-> 0]}, Grounded : BOOLEAN]

\* game.WorldState as World.Snapshot builds it: the checksum is computed
\* from the tick and the entities.
WorldStateOf(stTick, ents) ==
    [Tick |-> stTick, Entities |-> ents, Checksum |-> computeChecksum(stTick, ents)]

MatchStates ==
    {WorldStateOf(t, ents) : t \in {1, 2}, ents \in SeqsUpTo(MatchEntities, MaxMatchEnts)}

\* The pair under comparison and what statesMatch made of it.
MatchHist(predicted, server, called) ==
    [predicted |-> predicted, server |-> server, called |-> called,
     result |-> called /\ statesMatch(predicted, server)]

MatchInit ==
    /\ gw = NewWorld
    /\ sbuf = None
    /\ \E a, b \in MatchStates : gh = MatchHist(ConvertToWorldSnapshot(a), b, FALSE)

\* r.statesMatch(predicted, serverState).
MatchCall ==
    /\ ~gh.called
    /\ gh' = MatchHist(gh.predicted, gh.server, TRUE)
    /\ UNCHANGED <<gw, sbuf>>
    /\ UNCHANGED <<serverVars, syncVars, reconVars>>

SpecMatchInit == ServerInit /\ SyncIdle /\ ReconIdle /\ MatchInit

SpecMatch == SpecMatchInit /\ [][MatchCall]_vars

\* C31: whenever statesMatch is called on a pair with equal non-zero
\* checksums, the detailed comparison of the pair reports a match too, so
\* that statesMatch accepts no pair the detailed comparison rejects.
C31_ChecksumAgreesWithDetailed ==
    gh.called =>
        /\ (gh.predicted.Checksum # ZeroSum /\ gh.server.Checksum # ZeroSum
            /\ gh.predicted.Checksum = gh.server.Checksum)
               => DetailedMatch(gh.predicted, gh.server)
        /\ gh.result => DetailedMatch(gh.predicted, gh.server)
(***************************************************************************)
(* Reconcile and the prediction buffers, under SpecRecon.                  *)
(***************************************************************************)

\* The ticks of the entries of a buffer list, in order.
TicksOf(entries) == [i \in DOMAIN entries |-> entries[i].Tick]

\* C32: a Reconcile that finds no predicted state for the tick T of the
\* server state leaves the World at tick T with position, velocity,
\* grounded flag and attack state of every entity as the server state has
\* them, reports Reconciled and neither RolledBack nor any replayed tick,
\* and leaves no buffer entry with a tick before T.
C32_NoPredictionAdoptsServerState ==
    (rec.count >= 1 /\ ~rec.HadPrediction) =>
        /\ rec.world.Tick = rec.state[1].Tick
        /\ StateIsWorld(rec.state[1], rec.world)
        /\ rec.Reconciled /\ ~rec.RolledBack /\ rec.ReplayedTicks = 0
        /\ rec.replayed = <<>>
        /\ \A i \in DOMAIN rec.after[1].inputs :
              rec.after[1].inputs[i].Tick >= rec.state[1].Tick
        /\ \A i \in DOMAIN rec.after[1].states :
              rec.after[1].states[i].Tick >= rec.state[1].Tick

\* The server was two ticks ahead of a client that had predicted one tick
\* and moved the other way: the World took over the server's tick and
\* position and the buffers, which held that one tick, are empty.
C32_Witness ==
    /\ rec.count = 1
    /\ ~rec.HadPrediction
    /\ rec.state[1].Tick = 2
    /\ rec.before[1].inputs # <<>>
    /\ rec.before[1].states[1].Entities[1].PositionX
           # rec.state[1].Entities[1].Position.X
    /\ rec.world.Ents[1].Pos = rec.state[1].Entities[1].Position
    /\ rec.after[1].inputs = <<>>
\* Whether the ticks of a list of entries never go down.
TickOrdered(entries) ==
    \A i, j \in DOMAIN entries : i < j => entries[i].Tick <= entries[j].Tick

\* C33: whatever RecordInput calls produced the buffer, the inputs Reconcile
\* replays for a server tick T, which are those GetInputsSince(T) returns
\* in the order it returns them, are exactly the buffered inputs with a
\* tick above T, in non-decreasing tick order.
C33_ReplayPreservesTickOrder ==
    \A t \in 0..MaxBufTick :
        /\ GetInputsSince(buf, t) = SelectSeq(buf.inputs, LAMBDA f : f.Tick > t)
        /\ TickOrdered(GetInputsSince(buf, t))

\* C34: after PruneBefore(T), whatever RecordInput / RecordState calls came
\* before, neither list holds an entry with a tick below T, and the entries
\* with a tick of T or more that were there are still there in their order.
C34_PruningIsExact ==
    gh.op = "PruneBefore" =>
        /\ \A i \in DOMAIN buf.inputs : buf.inputs[i].Tick >= gh.arg
        /\ \A i \in DOMAIN buf.states : buf.states[i].Tick >= gh.arg
        /\ buf.inputs = SelectSeq(gh.before.inputs, LAMBDA f : f.Tick >= gh.arg)
        /\ buf.states = SelectSeq(gh.before.states, LAMBDA f : f.Tick >= gh.arg)

(***************************************************************************)
(* Baseline.Update on its own: the sender's baseline is updated with       *)
(* arbitrary acknowledged snapshots, full and delta, one after another.    *)
(***************************************************************************)
\* The highest tick of an acknowledged snapshot.
MaxAckTick == 2

\* The snapshots the sender is told were acknowledged.
AckedSnapshots ==
    [Tick : 1..MaxAckTick, Full : BOOLEAN, Baseline : {0},
     Entities : SeqsUpTo(ApplyEntities, MaxCur),
     Removed : SeqsUpTo({1, 2}, MaxRemoved)]

BaseInit ==
    /\ baseline = NewBaseline
    /\ current = <<>>
    /\ recvState = EmptyMap
    /\ snap = NoSnap
    /\ syncPc = "idle"
    /\ gw = NewWorld
    /\ sbuf = None
    /\ gh = NewBaseline

\* baseline.Update(&sn); gh keeps the baseline the call found.
BaseUpdate(sn) ==
    /\ snap' = Some(sn)
    /\ baseline' = BaselineUpdate(baseline, sn)
    /\ gh' = baseline
    /\ UNCHANGED <<current, recvState, syncPc, gw, sbuf>>
    /\ UNCHANGED <<serverVars, reconVars>>

SpecBaseInit == ServerInit /\ ReconIdle /\ BaseInit

SpecBase == SpecBaseInit /\ [][\E sn \in AckedSnapshots : BaseUpdate(sn)]_vars

\* The id -> bytes map a list of entities describes, later entries winning.
EntityMap(ents) ==
    [id \in {ents[i].ID : i \in DOMAIN ents} |->
        LET last == CHOOSE i \in DOMAIN ents :
                        /\ ents[i].ID = id
                        /\ \A j \in DOMAIN ents : ents[j].ID = id => j <= i
        IN  ents[last].Components]

\* C35: after Baseline.Update(snap) the baseline's tick is snap.Tick; for a
\* Full snapshot the entity map is exactly that of snap.Entities, so that no
\* entity absent from the snapshot is left, and for a delta it is the map
\* before with snap.Entities upserted and snap.Removed deleted.
C35_BaselineReplacement ==
    snap # NoSnap =>
        /\ baseline.tick = snap[1].Tick
        /\ snap[1].Full => baseline.entities = EntityMap(snap[1].Entities)
        /\ ~snap[1].Full =>
              baseline.entities =
                  [id \in (DOMAIN gh.entities
                              \cup DOMAIN EntityMap(snap[1].Entities))
                           \ {snap[1].Removed[i] : i \in DOMAIN snap[1].Removed} |->
                      IF id \in DOMAIN EntityMap(snap[1].Entities)
                      THEN EntityMap(snap[1].Entities)[id]
                      ELSE gh.entities[id]]

(***************************************************************************)
(* The embedded client: ProcessInput reads Server.Tick(), tags the frame   *)
(* with the tick after it and hands it to Server.QueueInput, while the     *)
(* tick loop the server started runs on its own goroutine.                 *)
(***************************************************************************)
\* Client.sessionID: single-player uses session 1.
ClientSessionID == 1

\* Client.SetServer: the client registers itself as a session, once.
SetServer ==
    /\ ClientSessionID \notin DOMAIN sessions
    /\ AddSession(ClientSessionID, ClientSessionID)

\* Client.ProcessInput, which needs the server SetServer stored, up to the
\* call of QueueInput: c.server.Tick() reads s.tick under the read lock, and
\* the frame is built for the tick after it.
ProcessInput(c, intents) ==
    /\ ClientSessionID \in DOMAIN sessions
    /\ qiPc[c] = "idle"
    /\ hist.inputs < MaxInputs
    /\ CanRLock
    /\ qiPc' = [qiPc EXCEPT ![c] = "called"]
    /\ qiArg' = [qiArg EXCEPT ![c] =
                    [sid |-> ClientSessionID,
                     frame |-> [Tick |-> tick + 1, Intents |-> intents],
                     obj |-> 0]]
    /\ hist' = [hist EXCEPT !.inputs = @ + 1]
    /\ UNCHANGED <<syncVars, reconVars, simVars>>
    /\ UNCHANGED <<world, tick, running, muW, muR, sessions, objs, quitClosed,
                   doneClosed, loopPc, ptTodo, ptLog, sinceSync, bcState, delivered,
                   stopPc, rdPc>>

SpecClientNext ==
    \/ SetWorld
    \/ \E l \in Loops : Start(l)
    \/ SetServer
    \/ \E c \in Receivers, i \in FrameIntents : ProcessInput(c, i)
    \/ \E c \in Receivers : QILookup(c)
    \/ \E c \in Receivers : QIAppend(c)
    \/ \E l \in Loops : PtBegin(l)
    \/ \E l \in Loops, sid \in SessionIDs : PtDrain(l, sid)
    \/ \E l \in Loops : PtUpdateBegin(l)
    \/ \E l \in Loops : PtUpdateEnd(l)
    \/ \E l \in Loops : BcSnapshot(l)
    \/ \E l \in Loops : BcCallback(l)

SpecClient == SpecServerInit /\ [][SpecClientNext]_vars

\* C36: under every interleaving of ProcessInput with the tick loop, a frame
\* that ProcessInput tagged T is handed to SetPlayerIntent by the processTick
\* whose Update produces tick T, never by a later one.
C36_InputTaggedWithAffectedTick ==
    \A v \in Visits :
        \A i \in DOMAIN v.drained : v.drained[i].Tick = ptLog.produces

\* C37: in a lossless in-order run from an empty baseline and an empty
\* receiver state, where every step diffs the current entities (of distinct
\* ids) against the baseline, applies the delta at the receiver and updates
\* the baseline with it, the receiver's state after every step is, in ids
\* and bytes, the current entity list of the step and the sender's baseline
\* entity map.
C37_DeltaStreamLockstep ==
    (syncPc = "idle" /\ baseline.tick > 0) =>
        /\ StateBytes(recvState) = baseline.entities
        /\ \A id \in DOMAIN recvState : recvState[id].ID = id
        /\ DistinctIDs(current) => StateBytes(recvState) = EntityMap(current)

\* The second step of a run has ended, and the receiver holds the one entity
\* of that step's current list.
C37_Witness ==
    /\ syncPc = "idle"
    /\ baseline.tick = 2
    /\ DistinctIDs(current)
    /\ current # <<>>
    /\ Cardinality(DOMAIN recvState) = 1

\* How many entries at the front of a list have a tick below t.
LeadingBelow(entries, t) ==
    CHOOSE k \in 0..Len(entries) :
        /\ \A i \in 1..k : entries[i].Tick < t
        /\ k = Len(entries) \/ entries[k + 1].Tick >= t

\* A list without its leading entries of a tick below t.
WithoutLeading(entries, t) ==
    SubSeq(entries, LeadingBelow(entries, t) + 1, Len(entries))

\* The entries of a list with a tick above t, in their order.
Above(entries, t) == SelectSeq(entries, LAMBDA f : f.Tick > t)

\* C38: whatever the outcome of Reconcile for a server tick T (no prediction,
\* match, rollback and replay), the input and state buffers after the call
\* are the buffers before it without their leading entries of a tick below
\* T, and the stored predicted states for ticks above T are those stored
\* before the call.
C38_ReconcileOnlyPrunes ==
    rec.before # None =>
        LET T == rec.ServerTick
            b == rec.before[1]
            a == rec.after[1]
        IN  /\ a.inputs = WithoutLeading(b.inputs, T)
            /\ a.states = WithoutLeading(b.states, T)
            /\ a = [b EXCEPT !.inputs = a.inputs, !.states = a.states]
            /\ Above(a.states, T) = Above(b.states, T)
            /\ Above(a.inputs, T) = Above(b.inputs, T)

\* A rollback and replay for tick T found states of a tick below T, which it
\* pruned, and predicted states above T, which it kept.
C38_Witness ==
    /\ rec.RolledBack
    /\ rec.replayed # <<>>
    /\ Len(rec.after[1].states) < Len(rec.before[1].states)
    /\ Above(rec.after[1].states, rec.ServerTick) # <<>>

\* How often x occurs in the list s.
CountOf(s, x) == Cardinality({i \in DOMAIN s : s[i] = x})

\* The step is the append of a QueueInput call to the queue of session
\* object o.
AppendsTo(o) ==
    \E c \in Receivers :
        /\ qiPc[c] = "append"
        /\ qiPc'[c] = "idle"
        /\ qiArg[c].obj = o
        /\ objs'[o].InputQueue = Append(objs[o].InputQueue, qiArg[c].frame)

\* The step is a DrainInputs(s.tick + 1) on session object o: what it
\* returned is logged as the last visit of the processTick.
DrainsFrom(o) ==
    /\ Len(ptLog'.visits) = Len(ptLog.visits) + 1
    /\ LET v == ptLog'.visits[Len(ptLog'.visits)]
           q == objs[o].InputQueue
       IN  /\ v.obj = o
           /\ v.drained = SelectSeq(q, LAMBDA f : f.Tick <= tick + 1)
           /\ objs'[o].InputQueue = SelectSeq(q, LAMBDA f : f.Tick > tick + 1)
           /\ \A f \in Range(q) \cup Range(v.drained) \cup Range(objs'[o].InputQueue) :
                 CountOf(v.drained, f) + CountOf(objs'[o].InputQueue, f)
                     = CountOf(q, f)

\* C39: under every interleaving of QueueInput calls with DrainInputs, a
\* session's queue changes only by a QueueInput appending its frame or by a
\* DrainInputs(upTo) that returns exactly the frames with Tick <= upTo in
\* queue order and leaves the others in their order, so that every queued
\* frame is returned by exactly one DrainInputs or is still queued; every
\* QueueInput that found its session appends its frame.
C39_QueueLosesAndDuplicatesNothing ==
    [][ /\ DOMAIN objs \subseteq DOMAIN objs'
        /\ \A o \in DOMAIN objs' \ DOMAIN objs : objs'[o].InputQueue = <<>>
        /\ \A o \in DOMAIN objs :
              \/ objs'[o].InputQueue = objs[o].InputQueue
              \/ AppendsTo(o)
              \/ DrainsFrom(o)
        /\ \A c \in Receivers :
              (qiPc[c] = "append" /\ qiPc'[c] = "idle") => AppendsTo(qiArg[c].obj)
        /\ Len(ptLog'.visits) = Len(ptLog.visits) + 1
              => DrainsFrom(ptLog'.visits[Len(ptLog'.visits)].obj) ]_vars

\* A DrainInputs has returned a frame of a session while a QueueInput call
\* that found the same session is about to append.
C39_Witness ==
    \E v \in Visits :
        /\ v.drained # <<>>
        /\ \E c \in Receivers : qiPc[c] = "append" /\ qiArg[c].obj = v.obj

(***************************************************************************)
(* Start, StartBlocking and Stop called in any order on one Server.  Each  *)
(* Start or StartBlocking runs runTickLoop once more; the channels are     *)
(* those New made.  No session is registered, so that processTick ranges   *)
(* over an empty map.                                                      *)
(***************************************************************************)
\* The runTickLoop executions: one per call of Start or StartBlocking.
TickLoops == {"loop", "again"}

\* Server.Start and Server.StartBlocking, whatever was called before: under
\* s.mu the world defaults to NewWorld() and running is set, then
\* runTickLoop runs, on a new goroutine or on the caller's.
StartAny(l) ==
    /\ CanLock
    /\ loopPc[l] = "none"
    /\ world' = IF world = None THEN Some(NewWorld) ELSE world
    /\ running' = TRUE
    /\ loopPc' = [loopPc EXCEPT ![l] = "select"]
    /\ hist' = [hist EXCEPT !.started = TRUE]
    /\ UNCHANGED <<syncVars, reconVars, simVars>>
    /\ UNCHANGED <<tick, muW, muR, sessions, objs, quitClosed, doneClosed, ptTodo,
                   ptLog, sinceSync, bcState, delivered, stopPc, qiPc, qiArg, rdPc>>

SpecStartInit == ServerInitOf(TickLoops) /\ SyncIdle /\ ReconIdle /\ SimIdle

SpecStartNext ==
    \/ \E l \in TickLoops : StartAny(l)
    \/ \E l \in TickLoops : PtBegin(l)
    \/ \E l \in TickLoops : PtUpdateBegin(l)
    \/ \E l \in TickLoops : PtUpdateEnd(l)
    \/ \E l \in TickLoops : BcSnapshot(l)
    \/ \E l \in TickLoops : BcCallback(l)
    \/ \E l \in TickLoops : LoopQuit(l)
    \/ \E c \in Stoppers : StopCall(c)
    \/ \E c \in Stoppers : StopClose(c)
    \/ \E c \in Stoppers : StopWait(c)

SpecStart == SpecStartInit /\ [][SpecStartNext]_vars

\* The tick loops that have been started and have not returned.
ActiveLoops == {l \in DOMAIN loopPc : loopPc[l] \notin {"none", "exited"}}

\* C40: whatever Start, StartBlocking and Stop calls are made on one Server,
\* at most one tick loop is active at a time, and a tick loop that returns
\* closes a done channel that was not closed before.
C40_SingleTickLoop ==
    [][ /\ Cardinality(ActiveLoops') <= 1
        /\ \A l \in DOMAIN loopPc :
              (loopPc[l] # "exited" /\ loopPc'[l] = "exited") => ~doneClosed ]_vars
=============================================================================
